---- MODULE Spec2Model ----
(***************************************************************************)
(* State-machine model of the two reconciler modules                       *)
(*   src/azure_rm_virtualmachine.py   (AzureRMVirtualMachine)              *)
(*   src/azure_rm_virtualnetwork.py   (AzureRMVirtualNetwork)              *)
(* One behaviour is: a remote world and a DesiredState are chosen, the      *)
(* module is invoked, and (after a successful return) invoked again with    *)
(* the same DesiredState.  Every remote call is one entry of `calls`.       *)
(***************************************************************************)
EXTENDS Integers, Sequences, FiniteSets, TLC

\* ------------------------------------------------------------------ bounds
\* number of successive invocations with the same DesiredState
MaxInvocations == 2
\* largest number of network interfaces attached to a remote VM
MaxNics == 2

\* ------------------------------------------------------------- vocabulary
None == "None"
NonAbsent == {"present", "started", "stopped"}
VMName == "vm"
NicNames == <<"nic1", "nic2", "nic3", "nic4">>
PipNames == <<"pip1", "pip2", "pip3", "pip4">>

Range(s) == {s[i] : i \in 1..Len(s)}
\* an optional value is <<>> (Python None / empty dict) or <<x>>
Some(x) == <<x>>
IsSet(o) == Len(o) > 0
\* Python truthiness of an optional list: None and [] are both falsy
Truthy(o) == Len(o) > 0 /\ Len(o[1]) > 0
Min(S) == CHOOSE x \in S : \A y \in S : x <= y

\* self.name + '01'
Plus01(name) == IF name = "vm" THEN "vm01" ELSE "other01"

\* a resource id is a path; only its type and its last segment are kept
NicId(name) == <<"networkInterfaces", name>>
PipId(name) == <<"publicIPAddresses", name>>
\* azure_id_to_dict: id -> mapping from the type segment to the name
azure_id_to_dict(id) == (id[1] :> id[2])

\* 'https://{0}.blob.core.windows.net/{1}/{2}'.format(account, container, blob)
VhdUri(account, container, blob) == <<"https", account, container, blob>>

extract_names_from_blob_uri(blob_uri) ==
    [accountname |-> blob_uri[2], containername |-> blob_uri[3], blobname |-> blob_uri[4]]

\* ------------------------------------------------------------ remote world
BaseImage == [publisher |-> "P1", offer |-> "O1", sku |-> "S1", version |-> "v2"]
\* what virtual_machine_images.list returns for BaseImage's publisher/offer/sku
ImageVersions == <<"v1", "v2">>
\* what virtual_machine_sizes.list returns
ValidSizes == {"A1", "D1"}

Kv == {<<"a", "1">>}
\* current tags {a:1, b:2} and the desired mappings they are reconciled with
Kv2 == {<<"a", "1">>, <<"b", "2">>}
DesiredTagSets == {{}, {<<"a", "1">>}, {<<"a", "9">>}, {<<"b", "3">>, <<"c", "4">>}}

ExistingVM(k, power, tags) ==
    [vmSize |-> "A1",
     image |-> BaseImage,
     caching |-> "ReadOnly",
     nics |-> [i \in 1..k |-> NicId(NicNames[i])],
     computerName |-> VMName,
     adminUsername |-> "admin",
     vhdUri |-> VhdUri("sa1", "vhds", "vm.vhd"),
     tags |-> tags,
     statuses |-> << <<"ProvisioningState", "succeeded">>, <<"PowerState", power>> >>]

NicRec(name, pip) == [name |-> name, pip |-> pip]
NicOf(rem, name) == CHOOSE n \in rem.nics : n.name = name
NicExists(rem, name) == \E n \in rem.nics : n.name = name

VARIABLES
    module,      \* "vm" or "vnet": which module this behaviour invokes
    p,           \* the DesiredState handed to every invocation (kwargs)
    remote,      \* the control plane's resources
    self,        \* the module object's attributes (exec_module_impl's setattr)
    loc,         \* exec_module_impl's / delete_vm's local variables
    results,     \* self.results
    pc,          \* position in the invocation
    inv,         \* number of the current invocation
    calls,       \* remote calls issued in this invocation, in order
    faulted,     \* some remote call of this behaviour was made to fail
    failure      \* kind of the fatal error that ended the invocation, or None

vars == <<module, p, remote, self, loc, results, pc, inv, calls, faulted, failure>>

\* ------------------------------------------------------------ construction
\* AzureRMVirtualMachine.__init__ : self.results
InitialVMResults ==
    [changed |-> FALSE,
     actions |-> <<>>,
     differences |-> <<>>,
     powerstate_change |-> None,
     results |-> <<>>]

\* locals of exec_module_impl at its top, and of delete_vm
InitialVMLocals ==
    [vm |-> <<>>,
     vm_dict |-> <<>>,
     network_interfaces |-> <<>>,
     requested_vhd_uri |-> <<>>,
     disable_ssh_password |-> FALSE,
     powerstate_change |-> None,
     changed |-> FALSE,
     sent |-> <<>>,
     vhd_uris |-> <<>>,
     nic_names |-> <<>>,
     pip_names |-> <<>>,
     nics_left |-> <<>>,
     pips_left |-> <<>>,
     vnet |-> <<>>]

\* the options every VM DesiredState carries (module_arg_spec defaults)
VMDefaults ==
    [state |-> "started",
     check_mode |-> FALSE,
     vm_size |-> "A1",
     image |-> <<>>,
     os_disk_caching |-> "ReadOnly",
     short_hostname |-> None,
     network_interface_names |-> <<>>,
     storage_account_name |-> None,
     storage_container_name |-> "vhds",
     storage_blob_name |-> None,
     admin_username |-> None,
     admin_password |-> None,
     os_type |-> "Linux",
     ssh_password |-> TRUE,
     ssh_public_keys |-> <<>>,
     tags |-> <<>>,
     purge_tags |-> FALSE,
     delete_network_interfaces |-> FALSE,
     delete_virtual_storage |-> FALSE,
     delete_public_ips |-> FALSE,
     virtual_network_name |-> None,
     subnet_name |-> None]

\* DesiredStates with a non-absent intent, applied where the VM is missing:
\* the options that creation reads vary
VMCreateParams ==
    {[VMDefaults EXCEPT
        !.state = st, !.check_mode = cm, !.image = im,
        !.network_interface_names = nn, !.storage_account_name = sa,
        !.admin_username = au, !.tags = tg] :
      st \in NonAbsent, cm \in BOOLEAN,
      im \in {<<>>, Some([BaseImage EXCEPT !.version = "latest"])},
      nn \in {<<>>, Some(<<"nic1">>)},
      sa \in {None, "sa1"},
      au \in {None, "admin"},
      tg \in {<<>>, Some(Kv)}}

\* DesiredStates with a non-absent intent, applied where the VM exists: the
\* options that the diff reads vary
VMUpdateParams ==
    {[VMDefaults EXCEPT
        !.state = st, !.check_mode = cm, !.vm_size = sz,
        !.image = Some([BaseImage EXCEPT !.version = "latest"]),
        !.network_interface_names = nn, !.storage_account_name = "sa1",
        !.admin_username = "admin", !.tags = tp[1], !.purge_tags = tp[2]] :
      st \in NonAbsent, cm \in BOOLEAN, sz \in ValidSizes,
      nn \in {<<>>, Some(<<"nic1">>)},
      tp \in {<< <<>>, FALSE>>, <<Some(Kv), FALSE>>, << <<>>, TRUE>>}}

\* DesiredStates applied where the VM exists that ask for another NIC, image,
\* image version, OS-disk caching or hostname
VMChangeParams ==
    {[VMDefaults EXCEPT
        !.state = "present", !.image = Some(im), !.os_disk_caching = ca,
        !.short_hostname = hn, !.network_interface_names = nn,
        !.storage_account_name = "sa1", !.admin_username = "admin"] :
      im \in {[BaseImage EXCEPT !.version = "v1"], [BaseImage EXCEPT !.version = "latest"],
              [BaseImage EXCEPT !.sku = "S2", !.version = "latest"],
              [BaseImage EXCEPT !.sku = "S2", !.version = "v1"],
              [BaseImage EXCEPT !.publisher = "P2", !.version = "latest"]},
      ca \in {"ReadOnly", "ReadWrite"},
      hn \in {None, "host"},
      nn \in {<<>>, Some(<<"nic2">>), Some(<<"nic1", "nic2">>), Some(<<"nic1", "nic1">>)}}

\* DesiredStates applied where the VM has the NICs nic1 and nic2: the same
\* NICs in another order, with a duplicate, and one of them alone
VMNicOrderParams ==
    {[VMDefaults EXCEPT
        !.state = "present",
        !.image = Some([BaseImage EXCEPT !.version = "latest"]),
        !.network_interface_names = Some(nn),
        !.storage_account_name = "sa1", !.admin_username = "admin"] :
      nn \in {<<"nic2", "nic1">>, <<"nic1", "nic2", "nic1">>, <<"nic2">>}}

\* DesiredStates applied where the VM exists that name another administrator,
\* password or OS-disk location than the VM has
VMImmutableParams ==
    {[VMDefaults EXCEPT
        !.state = "present", !.vm_size = sz,
        !.image = Some([BaseImage EXCEPT !.version = "latest"]),
        !.storage_account_name = "sa1", !.storage_container_name = sc,
        !.storage_blob_name = sb,
        !.admin_username = au, !.admin_password = ap] :
      sz \in ValidSizes,
      sc \in {"vhds", "other"},
      sb \in {None, "disk.vhd"},
      au \in {"admin", "root"},
      ap \in {None, "pw"}}

\* DesiredStates applied where the VM exists that differ from it in tags only
VMTagParams ==
    {[VMDefaults EXCEPT
        !.state = "present",
        !.image = Some([BaseImage EXCEPT !.version = "latest"]),
        !.storage_account_name = "sa1", !.admin_username = "admin",
        !.tags = Some(d), !.purge_tags = pg] :
      d \in DesiredTagSets, pg \in BOOLEAN}

\* DesiredStates of the VM module with intent absent
VMAbsentParams ==
    {[VMDefaults EXCEPT
        !.state = "absent", !.check_mode = cm,
        !.delete_network_interfaces = dn, !.delete_virtual_storage = ds,
        !.delete_public_ips = dp] :
      cm \in BOOLEAN, dn \in BOOLEAN, ds \in BOOLEAN, dp \in BOOLEAN}

\* the resources every remote world holds beside the VM
BaseRemote ==
    [vm |-> <<>>,
     nics |-> {NicRec("nic1", "pip1")},
     pips |-> {"pip1"},
     sgs |-> {},
     sas |-> {"sa1"},
     blobs |-> {},
     vnets |-> {"vnet1"},
     subnets |-> {"subnet1"},
     vnet |-> <<>>]

\* remote worlds in which a VM with k NICs exists; hasPip[i] says whether
\* NIC i carries a public IP
RemoteWithVM(k, power, tags, hasPip) ==
    [BaseRemote EXCEPT
        !.vm = Some(ExistingVM(k, power, tags)),
        !.nics = {NicRec(NicNames[i], IF hasPip[i] THEN PipNames[i] ELSE None) : i \in 1..k},
        !.pips = {PipNames[i] : i \in {j \in 1..k : hasPip[j]}},
        !.blobs = {VhdUri("sa1", "vhds", "vm.vhd")}]

\* remote worlds without the VM; the default-named NIC and storage account
\* may exist already
RemoteWithoutVM(defaultNic, defaultSa) ==
    [BaseRemote EXCEPT
        !.nics = @ \cup (IF defaultNic THEN {NicRec(Plus01(VMName), None)} ELSE {}),
        !.sas = @ \cup (IF defaultSa THEN {Plus01(VMName)} ELSE {})]

InitVM ==
    /\ module = "vm"
    /\ \/ /\ p \in VMCreateParams
          /\ \E dn \in BOOLEAN, ds \in BOOLEAN : remote = RemoteWithoutVM(dn, ds)
       \/ /\ p \in VMUpdateParams
          /\ \E pw \in {"running", "stopped"}, tg \in {{}, Kv} :
                 remote = RemoteWithVM(1, pw, tg, [i \in 1..1 |-> TRUE])
       \/ /\ p \in VMChangeParams \cup VMImmutableParams
          /\ remote = [RemoteWithVM(1, "running", {}, [i \in 1..1 |-> TRUE]) EXCEPT
                          !.nics = @ \cup {NicRec("nic2", None)}]
       \/ /\ p \in VMNicOrderParams
          /\ remote = RemoteWithVM(2, "running", {}, [i \in 1..2 |-> TRUE])
       \/ /\ p \in VMTagParams
          /\ remote = RemoteWithVM(1, "running", Kv2, [i \in 1..1 |-> TRUE])
       \/ /\ p \in VMAbsentParams
          /\ \/ remote = RemoteWithoutVM(FALSE, FALSE)
             \/ \E k \in 1..MaxNics : \E hp \in [1..k -> BOOLEAN] :
                    remote = RemoteWithVM(k, "running", {}, hp)
    /\ self = p
    /\ loc = InitialVMLocals
    /\ results = InitialVMResults
    /\ pc = "start"
    /\ inv = 1
    /\ calls = <<>>
    /\ faulted = FALSE
    /\ failure = None

\* ------------------------------------------------------------ remote calls
Call(op, arg) == <<op, arg>>
\* the modules wait on every poller before the next step (get_poller_result)
Wait(op, arg) == <<"wait", op>>
\* a call that raised
Raise(op) == <<"raise", op>>

MutatingOps ==
    {"virtual_machines.create_or_update", "virtual_machines.delete",
     "virtual_machines.start", "virtual_machines.power_off",
     "network_interfaces.create_or_update", "network_interfaces.delete",
     "public_ip_addresses.create_or_update", "public_ip_addresses.delete",
     "network_security_groups.create_or_update",
     "storage_accounts.create", "blob.delete_blob",
     "virtual_networks.create_or_update", "virtual_networks.delete"}

DeleteOps ==
    {"virtual_machines.delete", "network_interfaces.delete",
     "public_ip_addresses.delete", "blob.delete_blob", "virtual_networks.delete"}

Count(cs, op) == Cardinality({i \in 1..Len(cs) : cs[i][1] = op})
Mutations(cs) == SelectSeq(cs, LAMBDA c : c[1] \in MutatingOps)

\* the position at which the reads of a step may be made to fail: reads have
\* no effect and every failed read is fatal, so failing the last one covers
\* the others up to the reads logged before it
FaultPoints(reads) == IF Len(reads) = 0 THEN {} ELSE {Len(reads)}

\* self.fail(...) and uncaught exceptions end the invocation
Fatal(kind) ==
    /\ pc' = "failed"
    /\ failure' = kind

\* ------------------------------------------------------- Desired-State Normalizer
\* a step of the sequential parameter checks: nothing runs after an error
Then(s, reads, err) ==
    IF s.err # None THEN s ELSE [reads |-> s.reads \o reads, err |-> err]

\* the NIC fetches of lines 580-583 stop at the first NIC that does not exist
NicFetches(rem, names) ==
    LET missing == {i \in 1..Len(names) : ~NicExists(rem, names[i])}
        last == IF missing = {} THEN Len(names) ELSE Min(missing)
    IN [reads |-> [i \in 1..last |-> Call("network_interfaces.get", names[i])],
        err |-> IF missing = {} THEN None ELSE "remote"]

ssh_keys_ok(keys) ==
    \A i \in 1..Len(keys) : keys[i].path # None /\ keys[i].key_data # None

image_ok(image) ==
    image.publisher # None /\ image.offer # None /\ image.sku # None /\ image.version # None

\* get_image_version: the last listed version for 'latest', else the one named
get_image_version(image) ==
    IF Len(ImageVersions) > 0 /\ image.version = "latest"
    THEN ImageVersions[Len(ImageVersions)]
    ELSE IF image.version \in Range(ImageVersions) THEN image.version ELSE None

\* exec_module_impl, lines 567-613, as the reads issued and the first error
NormalizeChecks(kw, rem) ==
    LET s0 == [reads |-> <<Call("resource_groups.get", "rg")>>, err |-> None]
        s1 == IF kw.vm_size # None
              THEN Then(s0, <<Call("virtual_machine_sizes.list", "loc")>>,
                        IF kw.vm_size \in ValidSizes THEN None ELSE "error")
              ELSE s0
        nf == NicFetches(rem, kw.network_interface_names[1])
        s2 == IF Truthy(kw.network_interface_names) THEN Then(s1, nf.reads, nf.err) ELSE s1
        s3 == IF Truthy(kw.ssh_public_keys)
              THEN Then(s2, <<>>, IF ssh_keys_ok(kw.ssh_public_keys[1]) THEN None ELSE "validation")
              ELSE s2
        s4 == IF IsSet(kw.image)
              THEN Then(Then(s3, <<>>, IF image_ok(kw.image[1]) THEN None ELSE "error"),
                        <<Call("virtual_machine_images.list", "loc")>>,
                        IF get_image_version(kw.image[1]) # None THEN None ELSE "remote")
              ELSE s3
        s5 == IF kw.storage_account_name # None
              THEN Then(s4, <<Call("storage_accounts.get_properties", kw.storage_account_name)>>,
                        IF kw.storage_account_name \in rem.sas THEN None ELSE "remote")
              ELSE s4
    IN IF kw.state \in NonAbsent THEN s5 ELSE s0

\* the attributes after the defaults of lines 598-604 are resolved
Normalized(kw) ==
    IF kw.state \in NonAbsent
    THEN [kw EXCEPT
            !.image = IF IsSet(kw.image) /\ kw.image[1].version = "latest"
                      THEN Some([kw.image[1] EXCEPT !.version = get_image_version(kw.image[1])])
                      ELSE kw.image,
            !.storage_blob_name = IF kw.storage_blob_name = None THEN "vm.vhd" ELSE @]
    ELSE kw

Normalize ==
    /\ module = "vm"
    /\ pc = "start"
    /\ LET s == NormalizeChecks(p, remote)
       IN \/ /\ s.err = None
             /\ calls' = calls \o s.reads
             /\ self' = Normalized(p)
             /\ loc' = [loc EXCEPT
                   !.network_interfaces =
                       IF p.state \in NonAbsent /\ Truthy(p.network_interface_names)
                       THEN [i \in 1..Len(p.network_interface_names[1]) |->
                                NicId(p.network_interface_names[1][i])]
                       ELSE <<>>,
                   !.requested_vhd_uri =
                       IF p.state \in NonAbsent /\ p.storage_account_name # None
                       THEN Some(VhdUri(p.storage_account_name, p.storage_container_name,
                                        Normalized(p).storage_blob_name))
                       ELSE <<>>,
                   !.disable_ssh_password =
                       IF p.state \in NonAbsent THEN ~p.ssh_password ELSE FALSE]
             /\ pc' = "fetch"
             /\ UNCHANGED <<faulted, failure>>
          \/ /\ s.err # None
             /\ calls' = calls \o s.reads
             /\ Fatal(s.err)
             /\ UNCHANGED <<self, loc, faulted>>
          \/ \E k \in FaultPoints(s.reads) :
               /\ calls' = calls \o SubSeq(s.reads, 1, k) \o <<Raise(s.reads[k][1])>>
               /\ faulted' = TRUE
               /\ Fatal("remote")
               /\ UNCHANGED <<self, loc>>
    /\ UNCHANGED <<module, p, remote, results, inv>>

\* ------------------------------------------------------------ Resource Fetcher
\* serialize_vm, lines 922-923: the first 'PowerState/...' status code
power_state_of(statuses) ==
    LET ps == {i \in 1..Len(statuses) : statuses[i][1] = "PowerState"}
    IN IF ps = {} THEN None ELSE statuses[Min(ps)][2]

\* serialize_vm: the VirtualMachine object as a dict, with power_state
serialize_vm(vm) ==
    [vmSize |-> vm.vmSize,
     image |-> vm.image,
     caching |-> vm.caching,
     nics |-> vm.nics,
     computerName |-> vm.computerName,
     adminUsername |-> vm.adminUsername,
     vhdUri |-> vm.vhdUri,
     tags |-> vm.tags,
     power_state |-> power_state_of(vm.statuses)]

\* serialize_vm, lines 926-948: every attached NIC and every public IP found
\* on those NICs is fetched to expand the dict
SerializeReads(vm, rem) ==
    LET names == [i \in 1..Len(vm.nics) |-> azure_id_to_dict(vm.nics[i])["networkInterfaces"]]
        withPip == SelectSeq(names, LAMBDA n : NicExists(rem, n) /\ NicOf(rem, n).pip # None)
    IN [i \in 1..Len(names) |-> Call("network_interfaces.get", names[i])]
       \o [i \in 1..Len(withPip) |-> Call("public_ip_addresses.get", NicOf(rem, withPip[i]).pip)]

\* get_vm followed by serialize_vm
RefetchReads(rem) ==
    <<Call("virtual_machines.get", VMName)>>
    \o (IF IsSet(rem.vm) THEN SerializeReads(rem.vm[1], rem) ELSE <<>>)

\* ---------------------------------------------------------------- Diff Engine
\* update_tags of the common base class: merge the desired tags into the
\* current ones, or replace them when purge_tags is set
update_tags(obj, tags) ==
    LET desired == IF IsSet(obj.tags) THEN obj.tags[1] ELSE {}
        keys == {kv[1] : kv \in desired}
        new_tags == IF obj.purge_tags THEN desired
                    ELSE {kv \in tags : kv[1] \notin keys} \cup desired
    IN [changed |-> new_tags # tags, tags |-> new_tags]

\* the NIC ids are compared as lists
DiffNics_ComparesLists(obj, network_interfaces, a) ==
    IF Truthy(obj.network_interface_names)
       /\ a.vm_dict.nics # network_interfaces
    THEN [vm_dict |-> [a.vm_dict EXCEPT !.nics = network_interfaces],
          differences |-> Append(a.differences, "Network Interfaces"),
          changed |-> TRUE]
    ELSE a

\* lines 627-636
DiffNics(obj, network_interfaces, a) ==
    IF Truthy(obj.network_interface_names)
       /\ Range(a.vm_dict.nics) # Range(network_interfaces)
    THEN [vm_dict |-> [a.vm_dict EXCEPT !.nics = network_interfaces],
          differences |-> Append(a.differences, "Network Interfaces"),
          changed |-> TRUE]
    ELSE a

\* the size difference is recorded but the target keeps the current size
DiffSize_KeepsCurrent(obj, a) ==
    IF obj.vm_size # None /\ obj.vm_size # a.vm_dict.vmSize
    THEN [vm_dict |-> a.vm_dict,
          differences |-> Append(a.differences, "VM Size"),
          changed |-> TRUE]
    ELSE a

\* lines 638-642
DiffSize(obj, a) ==
    IF obj.vm_size # None /\ obj.vm_size # a.vm_dict.vmSize
    THEN [vm_dict |-> [a.vm_dict EXCEPT !.vmSize = obj.vm_size],
          differences |-> Append(a.differences, "VM Size"),
          changed |-> TRUE]
    ELSE a

\* only the sku is compared
DiffImage_ComparesSku(obj, a) ==
    IF IsSet(obj.image) /\ obj.image[1].sku # a.vm_dict.image.sku
    THEN [vm_dict |-> [a.vm_dict EXCEPT !.image.publisher = obj.image[1].publisher,
                                        !.image.offer = obj.image[1].offer,
                                        !.image.sku = obj.image[1].sku],
          differences |-> Append(a.differences, "Image"),
          changed |-> TRUE]
    ELSE a

\* lines 645-654
DiffImage(obj, a) ==
    IF IsSet(obj.image)
       /\ (\/ obj.image[1].publisher # a.vm_dict.image.publisher
           \/ obj.image[1].offer # a.vm_dict.image.offer
           \/ obj.image[1].sku # a.vm_dict.image.sku)
    THEN [vm_dict |-> [a.vm_dict EXCEPT !.image.publisher = obj.image[1].publisher,
                                        !.image.offer = obj.image[1].offer,
                                        !.image.sku = obj.image[1].sku],
          differences |-> Append(a.differences, "Image"),
          changed |-> TRUE]
    ELSE a

\* lines 656-660
DiffImageVersion(obj, a) ==
    IF IsSet(obj.image) /\ obj.image[1].version # a.vm_dict.image.version
    THEN [vm_dict |-> [a.vm_dict EXCEPT !.image.version = obj.image[1].version],
          differences |-> Append(a.differences, "Image versions"),
          changed |-> TRUE]
    ELSE a

\* the caching difference is recorded without setting changed
DiffCaching_RecordsOnly(obj, a) ==
    IF obj.os_disk_caching # None /\ obj.os_disk_caching # a.vm_dict.caching
    THEN [vm_dict |-> [a.vm_dict EXCEPT !.caching = obj.os_disk_caching],
          differences |-> Append(a.differences, "OS Disk caching"),
          changed |-> a.changed]
    ELSE a

\* lines 662-667
DiffCaching(obj, a) ==
    IF obj.os_disk_caching # None /\ obj.os_disk_caching # a.vm_dict.caching
    THEN [vm_dict |-> [a.vm_dict EXCEPT !.caching = obj.os_disk_caching],
          differences |-> Append(a.differences, "OS Disk caching"),
          changed |-> TRUE]
    ELSE a

\* the merged tags are stored but "Tags" is recorded only when keys are added
DiffTags_RecordsAdditionsOnly(obj, a) ==
    LET u == update_tags(obj, a.vm_dict.tags)
        added == {kv[1] : kv \in u.tags} \ {kv[1] : kv \in a.vm_dict.tags} # {}
    IN [vm_dict |-> [a.vm_dict EXCEPT !.tags = u.tags],
        differences |-> IF added THEN Append(a.differences, "Tags") ELSE a.differences,
        changed |-> a.changed \/ added]

\* lines 677-680
DiffTags(obj, a) ==
    LET u == update_tags(obj, a.vm_dict.tags)
    IN [vm_dict |-> [a.vm_dict EXCEPT !.tags = u.tags],
        differences |-> IF u.changed THEN Append(a.differences, "Tags") ELSE a.differences,
        changed |-> a.changed \/ u.changed]

\* lines 691-695
DiffHostname(obj, a) ==
    IF obj.short_hostname # None /\ obj.short_hostname # a.vm_dict.computerName
    THEN [vm_dict |-> [a.vm_dict EXCEPT !.computerName = obj.short_hostname],
          differences |-> Append(a.differences, "Short Hostname"),
          changed |-> TRUE]
    ELSE a

\* the comparison of the admin username (lines 682-689) is enabled
VMDiff_DiffsAdmin(obj, network_interfaces, vm_dict) ==
    LET a == DiffHostname(obj,
               DiffTags(obj,
                 DiffCaching(obj,
                   DiffImageVersion(obj,
                     DiffImage(obj,
                       DiffSize(obj,
                         DiffNics(obj, network_interfaces,
                           [vm_dict |-> vm_dict, differences |-> <<>>,
                            changed |-> FALSE])))))))
    IN IF obj.admin_username # None /\ obj.admin_username # a.vm_dict.adminUsername
       THEN [vm_dict |-> [a.vm_dict EXCEPT !.adminUsername = obj.admin_username],
             differences |-> Append(a.differences, "Admin Username"),
             changed |-> TRUE]
       ELSE a

\* lines 621-697: the field-by-field comparison, in the order of the code
VMDiff(obj, network_interfaces, vm_dict) ==
    DiffHostname(obj,
      DiffTags(obj,
        DiffCaching(obj,
          DiffImageVersion(obj,
            DiffImage(obj,
              DiffSize(obj,
                DiffNics(obj, network_interfaces,
                  [vm_dict |-> vm_dict, differences |-> <<>>, changed |-> FALSE])))))))

\* the 'stopped' intent is never compared with the power state
PowerStateChange_NoOff(state, power_state) ==
    IF state = "started" /\ power_state # "running" THEN "poweron" ELSE None

\* 'present' is handled like 'started'
PowerStateChange_PresentStarts(state, power_state) ==
    IF state \in {"started", "present"} /\ power_state # "running" THEN "poweron"
    ELSE IF state = "stopped" /\ power_state = "running" THEN "poweroff"
    ELSE None

\* lines 699-707: the power state the intent asks to change
PowerStateChange(state, power_state) ==
    IF state = "started" /\ power_state # "running" THEN "poweron"
    ELSE IF state = "stopped" /\ power_state = "running" THEN "poweroff"
    ELSE None

\* the power-on branch is lost
PowerPc_NeverOn(powerstate_change, res) ==
    IF powerstate_change = "poweroff" /\ res.power_state = "running" THEN "poweroff"
    ELSE "done"

\* lines 884-893: the power call still needed, given what results report
PowerPc(powerstate_change, res) ==
    IF powerstate_change = "poweron" /\ res.power_state # "running" THEN "poweron"
    ELSE IF powerstate_change = "poweroff" /\ res.power_state = "running" THEN "poweroff"
    ELSE "done"

\* check mode does not return early
AfterDiffPc_IgnoresCheckMode(obj, changed, vm, r) ==
    IF ~changed THEN "done"
    ELSE IF obj.state \in NonAbsent
         THEN IF ~IsSet(vm) THEN "create"
              ELSE IF IsSet(r.differences) /\ Len(r.differences[1]) > 0 THEN "update"
              ELSE PowerPc(r.powerstate_change, r.results[1])
         ELSE "delete"

\* every change of an existing VM, a power change included, sends an update
AfterDiffPc_UpdateOnAnyChange(obj, changed, vm, r) ==
    IF obj.check_mode THEN "done"
    ELSE IF ~changed THEN "done"
    ELSE IF obj.state \in NonAbsent
         THEN IF ~IsSet(vm) THEN "create" ELSE "update"
         ELSE "delete"

\* an existing VM is updated whether or not anything changed
AfterDiffPc_UpdatesUnchanged(obj, changed, vm, r) ==
    IF obj.check_mode THEN "done"
    ELSE IF ~changed
         THEN IF obj.state \in NonAbsent /\ IsSet(vm) THEN "update" ELSE "done"
    ELSE IF obj.state \in NonAbsent
         THEN IF ~IsSet(vm) THEN "create"
              ELSE IF IsSet(r.differences) /\ Len(r.differences[1]) > 0 THEN "update"
              ELSE PowerPc(r.powerstate_change, r.results[1])
         ELSE "delete"

\* an existing VM that differs is deleted, to be created anew
AfterDiffPc_DeletesToRecreate(obj, changed, vm, r) ==
    IF obj.check_mode THEN "done"
    ELSE IF ~changed THEN "done"
    ELSE IF obj.state \in NonAbsent
         THEN IF ~IsSet(vm) THEN "create"
              ELSE IF IsSet(r.differences) /\ Len(r.differences[1]) > 0 THEN "delete"
              ELSE PowerPc(r.powerstate_change, r.results[1])
         ELSE "delete"

\* lines 725-730 and 895-898: where the invocation goes after the diff
AfterDiffPc(obj, changed, vm, r) ==
    IF obj.check_mode THEN "done"
    ELSE IF ~changed THEN "done"
    ELSE IF obj.state \in NonAbsent
         THEN IF ~IsSet(vm) THEN "create"
              ELSE IF IsSet(r.differences) /\ Len(r.differences[1]) > 0 THEN "update"
              ELSE PowerPc(r.powerstate_change, r.results[1])
         ELSE "delete"

\* a fetch that reports nothing always asks for a change
NotFoundChanged_Always(state) == TRUE

\* lines 714-719: a missing VM is a change only for a non-absent intent
NotFoundChanged(state) == state \in NonAbsent

\* exec_module_impl, lines 615-726: fetch, diff, record the outcome
FetchAndDiff ==
    /\ module = "vm"
    /\ pc = "fetch"
    /\ LET get == <<Call("virtual_machines.get", VMName)>>
           \* the except CloudError branch, lines 714-719
           NotFound(fault) ==
               LET changed == NotFoundChanged(self.state)
                   r == [results EXCEPT !.changed = changed, !.results = <<>>,
                                        !.powerstate_change = None]
               IN /\ calls' = calls \o get \o <<Raise(get[1][1])>>
                  /\ faulted' = (faulted \/ fault)
                  /\ loc' = [loc EXCEPT !.changed = changed]
                  /\ results' = r
                  /\ pc' = AfterDiffPc(self, changed, <<>>, r)
                  /\ UNCHANGED failure
           \* the try branch, lines 617-712
           Found ==
               LET vm == remote.vm[1]
                   vm_dict == serialize_vm(vm)
                   d == VMDiff(self, loc.network_interfaces, vm_dict)
                   psc == PowerStateChange(self.state, d.vm_dict.power_state)
                   changed == IF self.state \in NonAbsent
                              THEN d.changed \/ psc # None
                              ELSE TRUE
                   r == IF self.state \in NonAbsent
                        THEN [results EXCEPT !.changed = changed,
                                             !.differences = Some(d.differences),
                                             !.results = Some(d.vm_dict),
                                             !.powerstate_change = psc]
                        ELSE [results EXCEPT !.changed = TRUE, !.results = <<>>,
                                             !.powerstate_change = None]
                   reads == get \o SerializeReads(vm, remote)
               IN \* the get itself raises CloudError for another reason
                  \/ NotFound(TRUE)
                  \/ /\ IF self.state # "absent" /\ vm_dict.power_state = None
                        THEN /\ Fatal("remote")
                             /\ UNCHANGED <<loc, results>>
                        ELSE /\ loc' = [loc EXCEPT
                                   !.vm = Some(vm),
                                   !.vm_dict = IF self.state \in NonAbsent
                                               THEN Some(d.vm_dict) ELSE Some(vm_dict),
                                   !.changed = changed,
                                   !.powerstate_change =
                                       IF self.state \in NonAbsent THEN psc ELSE None]
                             /\ results' = r
                             /\ pc' = AfterDiffPc(self, changed, Some(vm), r)
                             /\ UNCHANGED failure
                     /\ calls' = calls \o reads
                     /\ UNCHANGED faulted
                  \* a read of serialize_vm fails: self.fail
                  \/ \E k \in FaultPoints(reads) \ {1} :
                       /\ calls' = calls \o SubSeq(reads, 1, k) \o <<Raise(reads[k][1])>>
                       /\ faulted' = TRUE
                       /\ Fatal("remote")
                       /\ UNCHANGED <<loc, results>>
       IN IF IsSet(remote.vm) THEN Found ELSE NotFound(FALSE)
    /\ UNCHANGED <<module, p, remote, self, inv>>

\* ------------------------------------------------------- the control plane
\* what virtual_machines.create_or_update leaves behind.  A new VM comes up
\* running; an updated VM keeps its power state or is left running (DOCUMENTATION
\* of state 'present'); the payload replaces the resource, tags included.
RemotePut(rem, payload) ==
    LET powers == IF IsSet(rem.vm)
                  THEN {power_state_of(rem.vm[1].statuses), "running"}
                  ELSE {"running"}
        tags == IF IsSet(payload.tags) THEN payload.tags[1] ELSE {}
    IN {[rem EXCEPT
           !.vm = Some([vmSize |-> payload.vmSize,
                        image |-> payload.image,
                        caching |-> payload.caching,
                        nics |-> payload.nics,
                        computerName |-> payload.computerName,
                        adminUsername |-> payload.adminUsername,
                        vhdUri |-> payload.vhdUri,
                        tags |-> tags,
                        statuses |-> << <<"ProvisioningState", "succeeded">>,
                                        <<"PowerState", pw>> >>]),
           !.blobs = @ \cup {payload.vhdUri}] : pw \in powers}

\* virtual_machines.start / power_off, waited on
RemotePower(rem, power) ==
    [rem EXCEPT !.vm[1].statuses =
        << <<"ProvisioningState", "succeeded">>, <<"PowerState", power>> >>]

\* --------------------------------------------------------- Apply Engine: create
\* the default NIC is not resolved: the VM is created from the storage account alone
CreateFirstPc_SkipsNic(obj) ==
    IF obj.storage_account_name = None THEN "default_storage" ELSE "create_vm"

\* lines 746-753: the first default to resolve, the NIC before the storage account
CreateFirstPc(obj) ==
    IF ~Truthy(obj.network_interface_names) THEN "default_nic"
    ELSE IF obj.storage_account_name = None THEN "default_storage"
    ELSE "create_vm"

\* lines 731-744 and the choice of the first default to resolve
CreateBegin ==
    /\ module = "vm"
    /\ pc = "create"
    /\ results' = [results EXCEPT !.actions = Append(@, <<"Created VM", VMName>>)]
    /\ IF self.admin_username = None
          \/ (self.os_type = "Linux" /\ loc.disable_ssh_password
              /\ ~Truthy(self.ssh_public_keys))
          \/ ~IsSet(self.image)
       THEN Fatal("validation")
       ELSE /\ pc' = CreateFirstPc(self)
            /\ UNCHANGED failure
    /\ UNCHANGED <<module, p, remote, self, loc, inv, calls, faulted>>

AfterNicPc == IF self.storage_account_name = None THEN "default_storage" ELSE "create_vm"

\* create_default_nic, lines 1174-1241: look the default NIC up, then find a
\* virtual network and a subnet for a new one
DefaultNicLookup ==
    /\ module = "vm"
    /\ pc = "default_nic"
    /\ LET name == Plus01(VMName)
           get == <<Call("network_interfaces.get", name)>>
           lists == <<Call("virtual_networks.list", "rg"), Call("subnets.list", "vnet")>>
           \* the lookup raised CloudError (nic stays None): go on to create one
           Missing(fault) ==
               \/ /\ calls' = calls \o get \o <<Raise(get[1][1])>> \o lists
                  /\ faulted' = (faulted \/ fault)
                  /\ IF remote.vnets = {} \/ remote.subnets = {}
                     THEN Fatal("remote")
                     ELSE pc' = "default_pip" /\ UNCHANGED failure
                  /\ UNCHANGED loc
               \/ /\ calls' = calls \o get \o <<Raise(get[1][1])>> \o lists
                                 \o <<Raise(lists[2][1])>>
                  /\ faulted' = TRUE
                  /\ Fatal("remote")
                  /\ UNCHANGED loc
       IN IF NicExists(remote, name)
          THEN \/ /\ calls' = calls \o get
                  /\ loc' = [loc EXCEPT !.network_interfaces = <<NicId(name)>>]
                  /\ pc' = AfterNicPc
                  /\ UNCHANGED <<faulted, failure>>
               \/ Missing(TRUE)
          ELSE Missing(FALSE)
    /\ UNCHANGED <<module, p, remote, self, results, inv>>

\* create_default_pip of the common base class: look up, create when missing
create_default_pip(rem, name) ==
    IF name \in rem.pips THEN <<>> ELSE <<Call("public_ip_addresses.create_or_update", name)>>

\* create_default_securitygroup of the common base class: look up, create when missing
create_default_securitygroup(rem, name) ==
    IF name \in rem.sgs THEN <<>> ELSE <<Call("network_security_groups.create_or_update", name)>>

\* a call that raises is logged and the invocation goes on (best effort)
Mutate_Continues(cs, rem2, next) ==
    \/ /\ calls' = calls \o cs \o [i \in 1..Len(cs) |-> Wait(cs[i][1], cs[i][2])]
       /\ remote' = rem2
       /\ pc' = next
       /\ UNCHANGED <<faulted, failure>>
    \/ /\ Len(cs) > 0
       /\ calls' = calls \o cs \o <<Raise(cs[Len(cs)][1])>>
       /\ faulted' = TRUE
       /\ pc' = next
       /\ UNCHANGED <<remote, failure>>

\* a call that raises is issued once more, and then succeeds
Mutate_RetriesOnce(cs, rem2, next) ==
    \/ /\ calls' = calls \o cs \o [i \in 1..Len(cs) |-> Wait(cs[i][1], cs[i][2])]
       /\ remote' = rem2
       /\ pc' = next
       /\ UNCHANGED <<faulted, failure>>
    \/ /\ Len(cs) > 0
       /\ calls' = calls \o cs \o <<Raise(cs[Len(cs)][1])>> \o cs
                         \o [i \in 1..Len(cs) |-> Wait(cs[i][1], cs[i][2])]
       /\ faulted' = TRUE
       /\ remote' = rem2
       /\ pc' = next
       /\ UNCHANGED failure

\* one step that issues the mutating calls `cs` (maybe none): they succeed
\* and the world becomes `rem2`, or the last of them raises
Mutate(cs, rem2, next) ==
    \/ /\ calls' = calls \o cs \o [i \in 1..Len(cs) |-> Wait(cs[i][1], cs[i][2])]
       /\ remote' = rem2
       /\ pc' = next
       /\ UNCHANGED <<faulted, failure>>
    \/ /\ Len(cs) > 0
       /\ calls' = calls \o cs \o <<Raise(cs[Len(cs)][1])>>
       /\ faulted' = TRUE
       /\ Fatal("remote")
       /\ UNCHANGED remote

\* create_default_nic, lines 1243-1244
CreateDefaultPip ==
    /\ module = "vm"
    /\ pc = "default_pip"
    /\ results' = [results EXCEPT
          !.actions = Append(@, <<"Creating default public IP", Plus01(VMName)>>)]
    /\ Mutate(create_default_pip(remote, Plus01(VMName)),
              [remote EXCEPT !.pips = @ \cup {Plus01(VMName)}], "default_sg")
    /\ UNCHANGED <<module, p, self, loc, inv>>

\* create_default_nic, lines 1246-1248
CreateDefaultSecurityGroup ==
    /\ module = "vm"
    /\ pc = "default_sg"
    /\ results' = [results EXCEPT
          !.actions = Append(@, <<"Created default security group", Plus01(VMName)>>)]
    /\ Mutate(create_default_securitygroup(remote, Plus01(VMName)),
              [remote EXCEPT !.sgs = @ \cup {Plus01(VMName)}], "create_nic")
    /\ UNCHANGED <<module, p, self, loc, inv>>

\* create_default_nic, lines 1250-1279
CreateDefaultNic ==
    /\ module = "vm"
    /\ pc = "create_nic"
    /\ results' = [results EXCEPT !.actions = Append(@, <<"Created NIC", Plus01(VMName)>>)]
    /\ Mutate(<<Call("network_interfaces.create_or_update", Plus01(VMName))>>,
              [remote EXCEPT !.nics = {n \in @ : n.name # Plus01(VMName)}
                                      \cup {NicRec(Plus01(VMName), Plus01(VMName))}],
              AfterNicPc)
    /\ loc' = [loc EXCEPT !.network_interfaces = <<NicId(Plus01(VMName))>>]
    /\ UNCHANGED <<module, p, self, inv>>

\* create_default_storage_account, lines 1141-1164, and lines 757-760
CreateDefaultStorageAccount ==
    /\ module = "vm"
    /\ pc = "default_storage"
    /\ LET name == Plus01(VMName)
           get == <<Call("storage_accounts.get_properties", name)>>
           uri == Some(VhdUri(name, self.storage_container_name, self.storage_blob_name))
           Create(fault) ==
               /\ results' = [results EXCEPT
                     !.actions = Append(@, <<"Created storage account", name>>)]
               /\ \/ /\ calls' = calls \o get \o <<Raise(get[1][1])>>
                                 \o <<Call("storage_accounts.create", name),
                                      Wait("storage_accounts.create", name),
                                      Call("storage_accounts.get_properties", name)>>
                     /\ remote' = [remote EXCEPT !.sas = @ \cup {name}]
                     /\ loc' = [loc EXCEPT !.requested_vhd_uri = uri]
                     /\ faulted' = (faulted \/ fault)
                     /\ pc' = "create_vm"
                     /\ UNCHANGED failure
                  \/ /\ calls' = calls \o get \o <<Raise(get[1][1])>>
                                 \o <<Call("storage_accounts.create", name),
                                      Raise("storage_accounts.create")>>
                     /\ faulted' = TRUE
                     /\ Fatal("remote")
                     /\ UNCHANGED <<remote, loc>>
       IN IF name \in remote.sas
          THEN \/ /\ calls' = calls \o get
                  /\ loc' = [loc EXCEPT !.requested_vhd_uri = uri]
                  /\ pc' = "create_vm"
                  /\ UNCHANGED <<remote, results, faulted, failure>>
               \/ Create(TRUE)
          ELSE Create(FALSE)
    /\ UNCHANGED <<module, p, self, inv>>

\* the hostname and the NICs are not taken from the DesiredState
CreatePayload_NoDefaults(obj, l) ==
    [vmSize |-> obj.vm_size,
     image |-> obj.image[1],
     caching |-> obj.os_disk_caching,
     nics |-> <<>>,
     computerName |-> obj.short_hostname,
     adminUsername |-> obj.admin_username,
     vhdUri |-> l.requested_vhd_uri[1],
     tags |-> obj.tags]

\* lines 762-795: the VirtualMachine built from the DesiredState
CreatePayload(obj, l) ==
    [vmSize |-> obj.vm_size,
     image |-> obj.image[1],
     caching |-> obj.os_disk_caching,
     nics |-> l.network_interfaces,
     computerName |-> IF obj.short_hostname = None THEN VMName ELSE obj.short_hostname,
     adminUsername |-> obj.admin_username,
     vhdUri |-> l.requested_vhd_uri[1],
     tags |-> obj.tags]

\* lines 820-856: the VirtualMachine rebuilt from the merged vm_dict
UpdatePayload(vm_dict) ==
    [vmSize |-> vm_dict.vmSize,
     image |-> vm_dict.image,
     caching |-> vm_dict.caching,
     nics |-> vm_dict.nics,
     computerName |-> vm_dict.computerName,
     adminUsername |-> vm_dict.adminUsername,
     vhdUri |-> vm_dict.vhdUri,
     tags |-> IF vm_dict.tags # {} THEN Some(vm_dict.tags) ELSE <<>>]

\* create_or_update_vm, lines 1109-1117: the call, the wait, get_vm and
\* serialize_vm; then the power check of lines 884-893
CreateOrUpdateVM(payload, r0) ==
    LET put == Call("virtual_machines.create_or_update", VMName)
    IN \/ \E rem2 \in RemotePut(remote, payload) :
            LET reads == RefetchReads(rem2)
                vm_dict == serialize_vm(rem2.vm[1])
            IN /\ remote' = rem2
               /\ loc' = [loc EXCEPT !.sent = Some(payload)]
               /\ \/ /\ calls' = calls \o <<put, Wait(put[1], put[2])>> \o reads
                     /\ results' = [r0 EXCEPT !.results = Some(vm_dict)]
                     /\ pc' = PowerPc(loc.powerstate_change, vm_dict)
                     /\ UNCHANGED <<faulted, failure>>
                  \/ \E k \in FaultPoints(reads) :
                       /\ calls' = calls \o <<put, Wait(put[1], put[2])>> \o SubSeq(reads, 1, k)
                                         \o <<Raise(reads[k][1])>>
                       /\ faulted' = TRUE
                       /\ Fatal("remote")
                       /\ results' = r0
       \/ /\ calls' = calls \o <<put, Raise(put[1])>>
          /\ loc' = [loc EXCEPT !.sent = Some(payload)]
          /\ faulted' = TRUE
          /\ Fatal("remote")
          /\ results' = r0
          /\ UNCHANGED remote

\* lines 762-812
CreateVM ==
    /\ module = "vm"
    /\ pc = "create_vm"
    /\ CreateOrUpdateVM(CreatePayload(self, loc), results)
    /\ UNCHANGED <<module, p, self, inv>>

\* --------------------------------------------------------- Apply Engine: update
\* lines 814-882
UpdateVM ==
    /\ module = "vm"
    /\ pc = "update"
    /\ CreateOrUpdateVM(UpdatePayload(loc.vm_dict[1]),
                        [results EXCEPT !.actions = Append(@, <<"Updated VM", VMName>>)])
    /\ UNCHANGED <<module, p, self, inv>>

\* ------------------------------------------------------ Power-State Sub-machine
\* power_on_vm / power_off_vm, then serialize_vm(get_vm())
PowerCall(op, text, power) ==
    LET rem2 == RemotePower(remote, power)
        reads == RefetchReads(rem2)
        r0 == [results EXCEPT !.actions = Append(@, <<text, VMName>>)]
    IN \/ /\ remote' = rem2
          /\ \/ /\ calls' = calls \o <<Call(op, VMName), Wait(op, VMName)>> \o reads
                /\ results' = [r0 EXCEPT !.results = Some(serialize_vm(rem2.vm[1]))]
                /\ pc' = "done"
                /\ UNCHANGED <<faulted, failure>>
             \/ \E k \in FaultPoints(reads) :
                  /\ calls' = calls \o <<Call(op, VMName), Wait(op, VMName)>>
                                    \o SubSeq(reads, 1, k) \o <<Raise(reads[k][1])>>
                  /\ results' = r0
                  /\ faulted' = TRUE
                  /\ Fatal("remote")
       \/ /\ calls' = calls \o <<Call(op, VMName), Raise(op)>>
          /\ results' = r0
          /\ faulted' = TRUE
          /\ Fatal("remote")
          /\ UNCHANGED remote

\* lines 885-888 and power_on_vm, lines 965-973
PowerOnVM ==
    /\ module = "vm"
    /\ pc = "poweron"
    /\ PowerCall("virtual_machines.start", "Powered on virtual machine", "running")
    /\ UNCHANGED <<module, p, self, loc, inv>>

\* lines 890-893 and power_off_vm, lines 955-963
PowerOffVM ==
    /\ module = "vm"
    /\ pc = "poweroff"
    /\ PowerCall("virtual_machines.power_off", "Powered off virtual machine", "stopped")
    /\ UNCHANGED <<module, p, self, loc, inv>>

\* ------------------------------------------------- Dependent-Resource Cascade
\* delete_vm, lines 980-1004: what the cascade will delete
PlanVhdUris(obj, vm) == IF obj.delete_virtual_storage THEN <<vm.vhdUri>> ELSE <<>>

PlanNicNames(obj, vm) ==
    IF obj.delete_network_interfaces
    THEN [i \in 1..Len(vm.nics) |-> azure_id_to_dict(vm.nics[i])["networkInterfaces"]]
    ELSE <<>>

\* the public IPs are collected whenever delete_public_ips is set
PlanPipNames_WithoutNics(obj, vm, rem) ==
    IF obj.delete_public_ips
    THEN LET names == [i \in 1..Len(vm.nics) |-> azure_id_to_dict(vm.nics[i])["networkInterfaces"]]
             withPip == SelectSeq(names, LAMBDA n : NicOf(rem, n).pip # None)
         IN [i \in 1..Len(withPip) |-> NicOf(rem, withPip[i]).pip]
    ELSE <<>>

\* the public IPs are found by fetching each NIC, only when NICs are deleted too
PlanPipNames(obj, vm, rem) ==
    IF obj.delete_network_interfaces /\ obj.delete_public_ips
    THEN LET names == PlanNicNames(obj, vm)
             withPip == SelectSeq(names, LAMBDA n : NicOf(rem, n).pip # None)
         IN [i \in 1..Len(withPip) |-> NicOf(rem, withPip[i]).pip]
    ELSE <<>>

PlanReads(obj, vm) ==
    IF obj.delete_network_interfaces /\ obj.delete_public_ips
    THEN [i \in 1..Len(vm.nics) |->
             Call("network_interfaces.get", azure_id_to_dict(vm.nics[i])["networkInterfaces"])]
    ELSE <<>>

\* the network interfaces are deleted before the VHD blob
CascadePc_NicsFirst(obj, l, stage) ==
    IF obj.delete_network_interfaces /\ Len(l.nics_left) > 0 THEN "delete_nic"
    ELSE IF stage = 0 /\ obj.delete_virtual_storage /\ Len(l.vhd_uris) > 0 THEN "delete_storage"
    ELSE IF obj.delete_public_ips /\ Len(l.pips_left) > 0 THEN "delete_pip"
    ELSE "done"

\* the loop over the VHD blobs never advances
CascadePc_RepeatsStorage(obj, l, stage) ==
    IF obj.delete_virtual_storage /\ Len(l.vhd_uris) > 0 THEN "delete_storage"
    ELSE IF obj.delete_network_interfaces /\ Len(l.nics_left) > 0 THEN "delete_nic"
    ELSE IF obj.delete_public_ips /\ Len(l.pips_left) > 0 THEN "delete_pip"
    ELSE "done"

\* lines 1018-1030: the next delete of the cascade
CascadePc(obj, l, stage) ==
    IF stage = 0 /\ obj.delete_virtual_storage /\ Len(l.vhd_uris) > 0 THEN "delete_storage"
    ELSE IF obj.delete_network_interfaces /\ Len(l.nics_left) > 0 THEN "delete_nic"
    ELSE IF obj.delete_public_ips /\ Len(l.pips_left) > 0 THEN "delete_pip"
    ELSE "done"

\* the VM is deleted first and the NICs are read afterwards
DeleteCalls_DeleteFirst(reads, del) == del \o reads

\* lines 997-1014: the reads of the plan come first, then the delete call
DeleteCalls(reads, del) == reads \o del

\* delete_vm, lines 976-1014: plan, delete the VM and wait for it
DeleteVM ==
    /\ module = "vm"
    /\ pc = "delete"
    /\ LET vm == loc.vm[1]
           reads == PlanReads(self, vm)
           l2 == [loc EXCEPT !.vhd_uris = PlanVhdUris(self, vm),
                             !.nic_names = PlanNicNames(self, vm),
                             !.pip_names = PlanPipNames(self, vm, remote),
                             !.nics_left = PlanNicNames(self, vm),
                             !.pips_left = PlanPipNames(self, vm, remote)]
           del == Call("virtual_machines.delete", VMName)
           r0 == [results EXCEPT !.actions = Append(@, <<"Deleted virtual machine", VMName>>)]
       IN \/ /\ calls' = calls \o DeleteCalls(reads, <<del, Wait(del[1], del[2])>>)
             /\ remote' = [remote EXCEPT !.vm = <<>>]
             /\ loc' = l2
             /\ results' = r0
             /\ pc' = CascadePc(self, l2, 0)
             /\ UNCHANGED <<faulted, failure>>
          \/ /\ calls' = calls \o DeleteCalls(reads, <<del, Raise(del[1])>>)
             /\ loc' = l2
             /\ results' = r0
             /\ faulted' = TRUE
             /\ Fatal("remote")
             /\ UNCHANGED remote
          \/ \E k \in FaultPoints(reads) :
               /\ calls' = calls \o SubSeq(reads, 1, k) \o <<Raise(reads[k][1])>>
               /\ faulted' = TRUE
               /\ Fatal("remote")
               /\ UNCHANGED <<remote, loc, results>>
    /\ UNCHANGED <<module, p, self, inv>>

\* delete_vm_storage, lines 1061-1076
DeleteVMStorage ==
    /\ module = "vm"
    /\ pc = "delete_storage"
    /\ LET uri == loc.vhd_uris[1]
           blob_parts == extract_names_from_blob_uri(uri)
           keys == Call("storage_accounts.list_keys", blob_parts.accountname)
           del == Call("blob.delete_blob", <<blob_parts.containername, blob_parts.blobname>>)
           r0 == [results EXCEPT !.actions =
                     Append(@, <<"Deleted blob", <<blob_parts.containername, blob_parts.blobname>> >>)]
       IN \/ /\ calls' = calls \o <<keys, del>>
             /\ remote' = [remote EXCEPT !.blobs = @ \ {uri}]
             /\ results' = r0
             /\ pc' = CascadePc(self, loc, 1)
             /\ UNCHANGED <<faulted, failure>>
          \/ /\ calls' = calls \o <<keys, del, Raise(del[1])>>
             /\ results' = r0
             /\ faulted' = TRUE
             /\ Fatal("remote")
             /\ UNCHANGED remote
          \/ /\ calls' = calls \o <<keys, Raise(keys[1])>>
             /\ faulted' = TRUE
             /\ Fatal("remote")
             /\ UNCHANGED <<remote, results>>
    /\ UNCHANGED <<module, p, self, loc, inv>>

\* delete_nic, lines 1040-1049, for the next NIC of the loop of lines 1024-1025
DeleteNic ==
    /\ module = "vm"
    /\ pc = "delete_nic"
    /\ LET name == Head(loc.nics_left)
           l2 == [loc EXCEPT !.nics_left = Tail(@)]
       IN /\ results' = [results EXCEPT
                !.actions = Append(@, <<"Deleted network interface", name>>)]
          /\ loc' = l2
          /\ Mutate(<<Call("network_interfaces.delete", name)>>,
                    [remote EXCEPT !.nics = {n \in @ : n.name # name}],
                    CascadePc(self, l2, 1))
    /\ UNCHANGED <<module, p, self, inv>>

\* delete_pip, lines 1051-1059, for the next public IP of the loop of lines 1029-1030
DeletePip ==
    /\ module = "vm"
    /\ pc = "delete_pip"
    /\ LET name == Head(loc.pips_left)
           l2 == [loc EXCEPT !.pips_left = Tail(@)]
       IN /\ results' = [results EXCEPT !.actions = Append(@, <<"Deleted public IP", name>>)]
          /\ loc' = l2
          /\ Mutate(<<Call("public_ip_addresses.delete", name)>>,
                    [remote EXCEPT !.pips = @ \ {name}],
                    CascadePc(self, l2, 1))
    /\ UNCHANGED <<module, p, self, inv>>

\* ============================================================ virtual network
\* NAME_PATTERN = ^[a-zA-Z0-9_]{1,61}[a-z0-9_]$ over names given as sequences
\* of characters
LowerChars == {"a", "e", "k", "m", "n", "o", "r", "t", "w", "y"}
UpperChars == {"M", "N"}
DigitChars == {"0", "1"}
NameBodyChars == LowerChars \cup UpperChars \cup DigitChars \cup {"_"}
NameLastChars == LowerChars \cup DigitChars \cup {"_"}

NAME_PATTERN_match(name) ==
    /\ Len(name) >= 2
    /\ Len(name) <= 62
    /\ \A i \in 1..(Len(name) - 1) : name[i] \in NameBodyChars
    /\ name[Len(name)] \in NameLastChars

\* CIDR_PATTERN of the common base class, over the prefixes of the model
ValidCidrs == {"p1", "p2"}
CIDR_PATTERN_match(prefix) == prefix \in ValidCidrs

VNetDefaults ==
    [state |-> "present",
     check_mode |-> FALSE,
     name |-> <<"n", "1">>,
     address_prefixes_cidr |-> <<>>,
     purge_address_prefixes |-> FALSE,
     dns_servers |-> <<>>,
     purge_dns_servers |-> FALSE,
     tags |-> <<>>,
     purge_tags |-> FALSE]

\* DesiredStates of the virtual-network module.  dns_servers and
\* purge_dns_servers are mutually exclusive, purge_address_prefixes requires
\* address_prefixes_cidr (the argument spec, lines 237-243)
VNetParams ==
    {[VNetDefaults EXCEPT
        !.check_mode = cm,
        !.address_prefixes_cidr = ap[1], !.purge_address_prefixes = ap[2],
        !.dns_servers = dn[1], !.purge_dns_servers = dn[2],
        !.tags = tp[1], !.purge_tags = tp[2]] :
      cm \in BOOLEAN,
      ap \in {<< <<>>, FALSE>>}
             \cup ({Some(<<"p1">>), Some(<<"p2">>), Some(<<"p1", "p2">>), Some(<<"bad">>)}
                   \X BOOLEAN),
      dn \in {<< <<>>, FALSE>>, <<Some(<<"d1">>), FALSE>>,
              <<Some(<<"d2", "d1">>), FALSE>>, << <<>>, TRUE>>},
      tp \in {<< <<>>, FALSE>>, <<Some(Kv), FALSE>>, << <<>>, TRUE>>}}
    \cup {[VNetDefaults EXCEPT !.state = "absent", !.check_mode = cm] : cm \in BOOLEAN}
    \cup {[VNetDefaults EXCEPT !.state = st, !.name = <<"n", "-">>,
                               !.address_prefixes_cidr = Some(<<"p1">>)] :
            st \in {"present", "absent"}}

\* the names the DesiredStates of VNetNameParams carry: "My_Network1",
\* "my-network-", a hyphen inside the name, an upper-case last letter, a
\* single letter and a period
NameSamples ==
    {<<"M", "y", "_", "N", "e", "t", "w", "o", "r", "k", "1">>,
     <<"m", "y", "-", "n", "e", "t", "w", "o", "r", "k", "-">>,
     <<"n", "-", "1">>, <<"n", "N">>, <<"n">>, <<"n", ".", "1">>}

\* DesiredStates of the virtual-network module that differ in the name
VNetNameParams ==
    {[VNetDefaults EXCEPT !.state = st, !.check_mode = cm, !.name = nm,
                          !.address_prefixes_cidr = Some(<<"p1", "p2">>)] :
      st \in {"present", "absent"}, cm \in BOOLEAN, nm \in NameSamples}

\* DesiredStates of the virtual-network module that differ from the network
\* in tags only
VNetTagParams ==
    {[VNetDefaults EXCEPT !.tags = Some(d), !.purge_tags = pg] :
      d \in DesiredTagSets, pg \in BOOLEAN}

\* a remote virtual network; dhcp is <<>> when the object carries no
\* dhcp_options, else <<the list of DNS servers>>
RemoteVNet(prefixes, dhcp, tags) ==
    [address_prefixes |-> prefixes, dhcp |-> dhcp, tags |-> tags, location |-> "loc"]

RemoteVNets ==
    {RemoteVNet(pf, dh, tg) :
        pf \in {<<"p1">>, <<"p1", "p2">>},
        dh \in {<<>>, Some(<<>>), Some(<<"d1", "d2">>)},
        tg \in {{}, Kv}}

\* AzureRMVirtualNetwork.__init__ : self.results (no action log, no differences)
InitialVNetResults ==
    [changed |-> FALSE,
     actions |-> <<>>,
     differences |-> <<>>,
     powerstate_change |-> None,
     results |-> <<>>]

InitVNet ==
    /\ module = "vnet"
    /\ \/ /\ p \in VNetParams
          /\ \/ remote = BaseRemote
             \/ \E v \in RemoteVNets : remote = [BaseRemote EXCEPT !.vnet = Some(v)]
       \/ /\ p \in VNetNameParams
          /\ \/ remote = BaseRemote
             \/ remote = [BaseRemote EXCEPT
                             !.vnet = Some(RemoteVNet(<<"p1">>, Some(<<"d1", "d2">>), {}))]
       \/ /\ p \in VNetTagParams
          /\ remote = [BaseRemote EXCEPT
                          !.vnet = Some(RemoteVNet(<<"p1">>, Some(<<"d1", "d2">>), Kv2))]
    /\ self = p
    /\ loc = InitialVMLocals
    /\ results = InitialVNetResults
    /\ pc = "start"
    /\ inv = 1
    /\ calls = <<>>
    /\ faulted = FALSE
    /\ failure = None

\* virtual_network_to_dict, lines 201-218: the dns_servers and address_prefixes
\* keys exist only when the lists are non-empty
virtual_network_to_dict(vnet) ==
    [location |-> vnet.location,
     tags |-> vnet.tags,
     dns_servers |-> IF IsSet(vnet.dhcp) /\ Len(vnet.dhcp[1]) > 0 THEN vnet.dhcp ELSE <<>>,
     address_prefixes |-> IF Len(vnet.address_prefixes) > 0
                          THEN Some(vnet.address_prefixes) ELSE <<>>]

\* exec_module_impl, lines 270-285
VNetValidate ==
    /\ module = "vnet"
    /\ pc = "start"
    /\ LET rg == <<Call("resource_groups.get", "rg")>>
       IN \/ /\ calls' = calls \o rg
             /\ IF ~NAME_PATTERN_match(self.name)
                THEN Fatal("validation")
                ELSE IF self.state = "present" /\ self.purge_address_prefixes
                        /\ (\/ \E i \in 1..Len(self.address_prefixes_cidr[1]) :
                                   ~CIDR_PATTERN_match(self.address_prefixes_cidr[1][i])
                            \/ (Truthy(self.dns_servers) /\ Len(self.dns_servers[1]) > 2))
                THEN Fatal("validation")
                ELSE pc' = "fetch" /\ UNCHANGED failure
             /\ UNCHANGED faulted
          \/ /\ calls' = calls \o rg \o <<Raise(rg[1][1])>>
             /\ faulted' = TRUE
             /\ Fatal("remote")
    /\ UNCHANGED <<module, p, remote, self, loc, results, inv>>

\* missing prefixes make the requested list replace the existing one, purge
\* or not
VNetDiffPrefixes_AlwaysReplaces(obj, vnet, a) ==
    IF Truthy(obj.address_prefixes_cidr)
    THEN LET existing == Range(vnet.address_prefixes)
             requested == Range(obj.address_prefixes_cidr[1])
         IN IF requested \ existing # {}
               \/ (existing \ requested # {} /\ obj.purge_address_prefixes)
            THEN [a EXCEPT !.changed = TRUE,
                           !.results.address_prefixes = obj.address_prefixes_cidr]
            ELSE a
    ELSE a

\* lines 300-317: a step of the diff is [results, changed, err]
VNetDiffPrefixes(obj, vnet, a) ==
    IF Truthy(obj.address_prefixes_cidr)
    THEN LET existing == Range(vnet.address_prefixes)
             requested == Range(obj.address_prefixes_cidr[1])
             missing_prefixes == requested \ existing
             extra_prefixes == existing \ requested
             \* the missing prefixes in the order of the request
             missing_seq == SelectSeq(obj.address_prefixes_cidr[1],
                                      LAMBDA x : x \in missing_prefixes)
             a1 == IF missing_prefixes # {}
                   THEN IF ~obj.purge_address_prefixes
                        THEN IF IsSet(a.results.address_prefixes)
                             THEN [a EXCEPT !.changed = TRUE,
                                            !.results.address_prefixes =
                                                Some(@[1] \o missing_seq)]
                             ELSE [a EXCEPT !.changed = TRUE, !.err = "error"]
                        ELSE [a EXCEPT !.changed = TRUE]
                   ELSE a
         IN IF a1.err = None /\ extra_prefixes # {} /\ obj.purge_address_prefixes
            THEN [a1 EXCEPT !.changed = TRUE,
                            !.results.address_prefixes = obj.address_prefixes_cidr]
            ELSE a1
    ELSE a

\* lines 319-321
VNetDiffTags(obj, a) ==
    IF a.err # None THEN a
    ELSE LET u == update_tags(obj, a.results.tags)
         IN [a EXCEPT !.results.tags = u.tags, !.changed = @ \/ u.changed]

\* lines 323-329: vnet.dhcp_options is dereferenced without a check
VNetDiffDns(obj, vnet, a) ==
    IF a.err # None THEN a
    ELSE IF Truthy(obj.dns_servers)
    THEN IF ~IsSet(vnet.dhcp) THEN [a EXCEPT !.err = "error"]
         ELSE IF Range(vnet.dhcp[1]) # Range(obj.dns_servers[1])
         THEN [a EXCEPT !.changed = TRUE, !.results.dns_servers = obj.dns_servers]
         ELSE a
    ELSE a

\* lines 331-334
VNetDiffPurgeDns(obj, vnet, a) ==
    IF a.err # None THEN a
    ELSE IF obj.purge_dns_servers /\ IsSet(vnet.dhcp) /\ Len(vnet.dhcp[1]) > 0
    THEN [a EXCEPT !.changed = TRUE, !.results.dns_servers = Some(<<>>)]
    ELSE a

\* lines 299-334
VNetDiff(obj, vnet) ==
    VNetDiffPurgeDns(obj, vnet,
      VNetDiffDns(obj, vnet,
        VNetDiffTags(obj,
          VNetDiffPrefixes(obj, vnet,
            [results |-> virtual_network_to_dict(vnet), changed |-> FALSE, err |-> None]))))

\* a changed network that exists is returned without the update
VNetAfterDiffPc_SkipsUpdate(obj, changed, r) ==
    IF obj.check_mode THEN "done"
    ELSE IF ~changed THEN "done"
    ELSE IF obj.state = "present"
         THEN IF ~IsSet(r) THEN "vnet_create" ELSE "done"
         ELSE "vnet_delete"

\* lines 347-352 and 385: where the invocation goes after the diff
VNetAfterDiffPc(obj, changed, r) ==
    IF obj.check_mode THEN "done"
    ELSE IF ~changed THEN "done"
    ELSE IF obj.state = "present"
         THEN IF ~IsSet(r) THEN "vnet_create" ELSE "vnet_update"
         ELSE "vnet_delete"

\* exec_module_impl, lines 287-348
VNetFetchAndDiff ==
    /\ module = "vnet"
    /\ pc = "fetch"
    /\ LET get == <<Call("virtual_networks.get", "net")>>
           \* the except CloudError branch, lines 338-342
           NotFound(fault) ==
               LET changed == (self.state = "present")
               IN /\ calls' = calls \o get \o <<Raise(get[1][1])>>
                  /\ faulted' = (faulted \/ fault)
                  /\ results' = [results EXCEPT !.changed = changed, !.results = <<>>]
                  /\ loc' = [loc EXCEPT !.changed = changed]
                  /\ pc' = VNetAfterDiffPc(self, changed, <<>>)
                  /\ UNCHANGED failure
           Found ==
               LET vnet == remote.vnet[1]
                   d == IF self.state = "present" THEN VNetDiff(self, vnet)
                        ELSE [results |-> virtual_network_to_dict(vnet),
                              changed |-> TRUE, err |-> None]
               IN \/ /\ IF d.err # None
                        THEN /\ Fatal(d.err)
                             /\ UNCHANGED <<results, loc>>
                        ELSE /\ results' = [results EXCEPT !.changed = d.changed,
                                                           !.results = Some(d.results)]
                             /\ loc' = [loc EXCEPT !.changed = d.changed, !.vnet = Some(vnet)]
                             /\ pc' = VNetAfterDiffPc(self, d.changed, Some(d.results))
                             /\ UNCHANGED failure
                     /\ calls' = calls \o get
                     /\ UNCHANGED faulted
                  \/ NotFound(TRUE)
       IN IF IsSet(remote.vnet) THEN Found ELSE NotFound(FALSE)
    /\ UNCHANGED <<module, p, remote, self, inv>>

\* what virtual_networks.create_or_update leaves behind: the payload
RemoteVNetPut(rem, payload) ==
    [rem EXCEPT !.vnet = Some(RemoteVNet(payload.address_prefixes, payload.dhcp,
                                         IF IsSet(payload.tags) THEN payload.tags[1] ELSE {}))]

\* create_or_update_vnet, lines 390-398
CreateOrUpdateVNet(payload) ==
    LET put == Call("virtual_networks.create_or_update", "net")
        rem2 == RemoteVNetPut(remote, payload)
    IN \/ /\ calls' = calls \o <<put, Wait(put[1], put[2])>>
          /\ remote' = rem2
          /\ loc' = [loc EXCEPT !.sent = Some(payload)]
          /\ results' = [results EXCEPT !.results = Some(virtual_network_to_dict(rem2.vnet[1]))]
          /\ pc' = "done"
          /\ UNCHANGED <<faulted, failure>>
       \/ /\ calls' = calls \o <<put, Raise(put[1])>>
          /\ loc' = [loc EXCEPT !.sent = Some(payload)]
          /\ faulted' = TRUE
          /\ Fatal("remote")
          /\ UNCHANGED <<remote, results>>

\* lines 353-369
VNetCreate ==
    /\ module = "vnet"
    /\ pc = "vnet_create"
    /\ IF ~Truthy(self.address_prefixes_cidr)
       THEN /\ Fatal("validation")
            /\ UNCHANGED <<remote, loc, results, calls, faulted>>
       ELSE CreateOrUpdateVNet(
                [address_prefixes |-> self.address_prefixes_cidr[1],
                 dhcp |-> IF Truthy(self.dns_servers) THEN self.dns_servers ELSE <<>>,
                 tags |-> IF IsSet(self.tags) /\ self.tags[1] # {} THEN self.tags ELSE <<>>])
    /\ UNCHANGED <<module, p, self, inv>>

\* lines 370-384: results['dns_servers'] is read whether or not the key exists
VNetUpdate ==
    /\ module = "vnet"
    /\ pc = "vnet_update"
    /\ LET r == results.results[1]
       IN IF ~IsSet(r.dns_servers) \/ ~IsSet(r.address_prefixes)
          THEN /\ Fatal("error")
               /\ UNCHANGED <<remote, loc, results, calls, faulted>>
          ELSE CreateOrUpdateVNet(
                   [address_prefixes |-> r.address_prefixes[1],
                    dhcp |-> IF Len(r.dns_servers[1]) > 0 THEN r.dns_servers ELSE <<>>,
                    tags |-> Some(r.tags)])
    /\ UNCHANGED <<module, p, self, inv>>

\* delete_virtual_network, lines 400-409
VNetDelete ==
    /\ module = "vnet"
    /\ pc = "vnet_delete"
    /\ LET del == Call("virtual_networks.delete", "net")
       IN \/ /\ calls' = calls \o <<del, Wait(del[1], del[2])>>
             /\ remote' = [remote EXCEPT !.vnet = <<>>]
             /\ results' = [results EXCEPT !.results =
                   Some([location |-> @[1].location, tags |-> @[1].tags,
                         dns_servers |-> @[1].dns_servers,
                         address_prefixes |-> @[1].address_prefixes,
                         status |-> "Deleted"])]
             /\ pc' = "done"
             /\ UNCHANGED <<faulted, failure>>
          \/ /\ calls' = calls \o <<del, Raise(del[1])>>
             /\ faulted' = TRUE
             /\ Fatal("remote")
             /\ UNCHANGED <<remote, results>>
    /\ UNCHANGED <<module, p, self, loc, inv>>

\* ------------------------------------------------------------------ invocations
\* the same DesiredState is applied again to what the last invocation left
Reinvoke ==
    /\ pc = "done"
    /\ inv < MaxInvocations
    /\ inv' = inv + 1
    /\ pc' = "start"
    /\ self' = p
    /\ loc' = InitialVMLocals
    /\ results' = IF module = "vm" THEN InitialVMResults ELSE InitialVNetResults
    /\ calls' = <<>>
    /\ UNCHANGED <<module, p, remote, faulted, failure>>

Init == InitVM \/ InitVNet

Next ==
    \/ Normalize
    \/ FetchAndDiff
    \/ CreateBegin
    \/ DefaultNicLookup
    \/ CreateDefaultPip
    \/ CreateDefaultSecurityGroup
    \/ CreateDefaultNic
    \/ CreateDefaultStorageAccount
    \/ CreateVM
    \/ UpdateVM
    \/ PowerOnVM
    \/ PowerOffVM
    \/ DeleteVM
    \/ DeleteVMStorage
    \/ DeleteNic
    \/ DeletePip
    \/ VNetValidate
    \/ VNetFetchAndDiff
    \/ VNetCreate
    \/ VNetUpdate
    \/ VNetDelete
    \/ Reinvoke

Spec == Init /\ [][Next]_vars

\* an invocation that has started runs on: exec_module_impl is straight-line
\* code with loops over finite lists, and every remote call and wait returns
\* or raises.  Whether the module is run again is up to the caller.
RunToCompletion == pc \notin {"done", "failed"} /\ Next

FairSpec == Spec /\ WF_vars(RunToCompletion)

\* ====================================================================== claims
Done == pc = "done"
IsVM == module = "vm"
IsVNet == module = "vnet"
\* the invocation ran for real and no remote call of the behaviour was failed
CleanRun == ~faulted /\ ~p.check_mode
NoMutation == Mutations(calls) = <<>>
\* the fetch of this invocation returned the VM
VMFetched == IsVM /\ IsSet(loc.vm)
FetchedPower == power_state_of(loc.vm[1].statuses)
RemotePowerState == power_state_of(remote.vm[1].statuses)
IsPrefix(a, b) == Len(a) <= Len(b) /\ SubSeq(b, 1, Len(a)) = a

\* C1: VM idempotence.  When an invocation with a non-absent intent has
\* returned and the same DesiredState has been applied again, the second
\* invocation returns changed=false, an empty differences list, and has issued
\* no create-or-update, power or delete call.
C1_VMIdempotence ==
    (IsVM /\ inv >= 2 /\ Done /\ CleanRun /\ p.state \in NonAbsent)
        => /\ ~results.changed
           /\ results.differences \in {<<>>, Some(<<>>)}
           /\ NoMutation

\* C2: virtual-network idempotence.  When an invocation with state=present has
\* returned and the same DesiredState has been applied again, the second
\* invocation returns changed=false and has issued no create-or-update call.
C2_VNetIdempotence ==
    (IsVNet /\ inv >= 2 /\ Done /\ CleanRun /\ p.state = "present")
        => /\ ~results.changed
           /\ Count(calls, "virtual_networks.create_or_update") = 0

\* C3: check-only mode.  In both modules an invocation in check mode issues no
\* mutating call, no step of it changes the remote state, and what it returns
\* is the outcome the diff computed (changed flag, differences, power-state
\* change).
C3_CheckModeFrame ==
    /\ [](p.check_mode => NoMutation)
    /\ [][p.check_mode => remote' = remote]_vars
    /\ []((p.check_mode /\ Done)
            => /\ results.changed = loc.changed
               /\ results.powerstate_change = loc.powerstate_change
               /\ (VMFetched /\ p.state \in NonAbsent => IsSet(results.differences)))

\* a check-mode invocation that reports a change it did not apply
C3_Witness ==
    /\ IsVM /\ p.check_mode /\ Done
    /\ results.changed
    /\ results.powerstate_change = "poweron"
    /\ IsSet(results.differences) /\ Len(results.differences[1]) > 0
    /\ remote.vm[1].vmSize # results.results[1].vmSize

\* the fetch of this invocation has run and reported that the resource does
\* not exist
FetchedMissing ==
    /\ pc \notin {"start", "fetch", "failed"}
    /\ IF IsVM THEN ~IsSet(loc.vm) ELSE ~IsSet(loc.vnet)

\* C4: absent-on-missing is a no-op.  In both modules, with state=absent and a
\* fetch that reports the resource missing, the invocation returns at once
\* with changed=false, an empty results record, an empty action log, and no
\* delete (nor any other mutating) call.
C4_AbsentOnMissing ==
    (p.state = "absent" /\ FetchedMissing)
        => /\ Done
           /\ ~results.changed
           /\ results.results = <<>>
           /\ results.actions = <<>>
           /\ NoMutation

\* absent against a missing VM with the cascade flags set, not in check mode
C4_Witness ==
    /\ IsVM /\ p.state = "absent" /\ FetchedMissing /\ ~p.check_mode
    /\ p.delete_network_interfaces /\ p.delete_virtual_storage /\ p.delete_public_ips
    /\ ~IsSet(remote.vm)
    /\ Count(calls, "virtual_machines.get") = 1

AllCascadeFlags ==
    p.delete_virtual_storage /\ p.delete_network_interfaces /\ p.delete_public_ips

\* the delete calls of the invocation, with the wait on the VM delete
DeleteTrace(cs) ==
    SelectSeq(cs, LAMBDA c : c[1] \in DeleteOps \/ c = Wait("virtual_machines.delete", VMName))

\* VM, wait, VHD blob, every attached NIC, every public IP found on them
ExpectedCascade ==
    LET vm == loc.vm[1]
        blob == extract_names_from_blob_uri(vm.vhdUri)
    IN <<Call("virtual_machines.delete", VMName), Wait("virtual_machines.delete", VMName),
         Call("blob.delete_blob", <<blob.containername, blob.blobname>>)>>
       \o [i \in 1..Len(vm.nics) |-> Call("network_interfaces.delete", vm.nics[i][2])]
       \o [i \in 1..Len(loc.pip_names) |-> Call("public_ip_addresses.delete", loc.pip_names[i])]

\* C5: cascade-delete ordering.  When an existing VM is deleted with the three
\* cascade flags set, the deletes issued so far are always a prefix of: VM
\* (waited on), VHD blob, each attached NIC, each public IP found on those
\* NICs; a returned invocation has issued exactly that sequence.
C5_CascadeOrder ==
    (IsVM /\ p.state = "absent" /\ AllCascadeFlags /\ VMFetched)
        => /\ IsPrefix(DeleteTrace(calls), ExpectedCascade)
           /\ (Done /\ ~p.check_mode => DeleteTrace(calls) = ExpectedCascade)
           /\ (Done /\ ~p.check_mode =>
                 \A i \in 1..Len(loc.vm[1].nics) :
                     LET n == loc.vm[1].nics[i][2]
                     IN ~NicExists(remote, n))

\* a VM with one NIC carrying one public IP: four deletes
C5_Witness ==
    /\ IsVM /\ p.state = "absent" /\ AllCascadeFlags /\ VMFetched /\ Done /\ ~p.check_mode
    /\ Len(loc.vm[1].nics) = 1
    /\ Len(loc.pip_names) = 1
    /\ Len(SelectSeq(calls, LAMBDA c : c[1] \in DeleteOps)) = 4

\* the resource a delete call names is gone from the remote state
DeleteInEffect(c) ==
    CASE c[1] = "virtual_machines.delete" -> ~IsSet(remote.vm)
      [] c[1] = "network_interfaces.delete" -> ~NicExists(remote, c[2])
      [] c[1] = "public_ip_addresses.delete" -> c[2] \notin remote.pips
      [] c[1] = "blob.delete_blob" -> loc.vm[1].vhdUri \notin remote.blobs
      [] OTHER -> TRUE

\* C6: cascade abort.  During a VM deletion, a delete step that raises is the
\* last call of the invocation, which ends in a fatal remote error; every
\* delete that succeeded before it is still in effect.
C6_CascadeAbort ==
    (IsVM /\ p.state = "absent")
        => \A i \in 1..Len(calls) :
              (calls[i][1] = "raise" /\ calls[i][2] \in DeleteOps)
                => /\ i = Len(calls)
                   /\ pc = "failed"
                   /\ failure = "remote"
                   /\ \A j \in 1..(i - 2) :
                         calls[j][1] \in DeleteOps => DeleteInEffect(calls[j])

\* the public-IP delete raised after the VM, the blob and the NIC were deleted
C6_Witness ==
    /\ IsVM /\ p.state = "absent" /\ pc = "failed"
    /\ Len(calls) > 0
    /\ calls[Len(calls)] = Raise("public_ip_addresses.delete")
    /\ Count(calls, "network_interfaces.delete") >= 1
    /\ Count(calls, "blob.delete_blob") = 1
    /\ ~IsSet(remote.vm)

\* a returned, real invocation with state=started that fetched a VM that was
\* not running
StartedOnStoppedVM ==
    /\ IsVM /\ Done /\ CleanRun
    /\ p.state = "started"
    /\ VMFetched
    /\ FetchedPower # "running"

\* C7 as stated: state=started against a VM that is not running issues exactly
\* one power-on call and reports power_state "running".
C7_ExactlyOnePowerOn ==
    StartedOnStoppedVM
        => /\ Count(calls, "virtual_machines.start") = 1
           /\ results.results[1].power_state = "running"

\* C7 amended: state=started against a VM that is not running issues at most
\* one power-on call, exactly one when the invocation issued no update, none
\* only when the update already left the VM running; the reported power_state,
\* re-fetched after the last call, is "running".
C7_PowerOnConvergence ==
    StartedOnStoppedVM
        => /\ Count(calls, "virtual_machines.start") <= 1
           /\ (Count(calls, "virtual_machines.create_or_update") = 0
                 => Count(calls, "virtual_machines.start") = 1)
           /\ results.results[1].power_state = "running"
           /\ RemotePowerState = "running"
           /\ calls[Len(calls)][1] \notin MutatingOps \cup {"wait"}

\* the update left the VM stopped and the power-on call followed it
C7_Witness ==
    /\ StartedOnStoppedVM
    /\ Count(calls, "virtual_machines.create_or_update") = 1
    /\ Count(calls, "virtual_machines.start") = 1

\* a returned, real invocation with state=stopped that fetched a running VM
StoppedOnRunningVM ==
    /\ IsVM /\ Done /\ CleanRun
    /\ p.state = "stopped"
    /\ VMFetched
    /\ FetchedPower = "running"

\* C8: power-off convergence.  state=stopped against a running VM issues
\* exactly one power-off call and no power-on call, and the reported results
\* are those of a fetch made after the power-off.
C8_PowerOffConvergence ==
    StoppedOnRunningVM
        => /\ Count(calls, "virtual_machines.power_off") = 1
           /\ Count(calls, "virtual_machines.start") = 0
           /\ \E i \in 1..Len(calls) : \E j \in (i + 1)..Len(calls) :
                 /\ calls[i][1] = "virtual_machines.power_off"
                 /\ calls[j][1] = "virtual_machines.get"
           /\ results.results[1] = serialize_vm(remote.vm[1])
           /\ results.results[1].power_state # "running"

\* the VM was updated and then powered off
C8_Witness ==
    /\ StoppedOnRunningVM
    /\ Count(calls, "virtual_machines.create_or_update") = 1
    /\ Count(calls, "virtual_machines.power_off") = 1

\* C9: state 'stopped' leaves the machine powered off.  After every returned,
\* real invocation with state=stopped the VM exists and is not running.
C9_StoppedLeavesOff ==
    (IsVM /\ Done /\ CleanRun /\ p.state = "stopped")
        => /\ IsSet(remote.vm)
           /\ RemotePowerState # "running"

\* C10: state 'present' never touches power.  An invocation with
\* state=present issues neither a power-on nor a power-off call and reports no
\* power-state change.
C10_PresentNoPower ==
    (IsVM /\ p.state = "present")
        => /\ Count(calls, "virtual_machines.start") = 0
           /\ Count(calls, "virtual_machines.power_off") = 0
           /\ results.powerstate_change = None
           /\ pc \notin {"poweron", "poweroff"}

\* state=present updated a VM that was stopped
C10_Witness ==
    /\ IsVM /\ p.state = "present" /\ Done /\ CleanRun
    /\ VMFetched
    /\ FetchedPower = "stopped"
    /\ Count(calls, "virtual_machines.create_or_update") = 1

\* an invocation that ended on a parameter (validation) error
ValidationFailed == pc = "failed" /\ failure = "validation"

\* C11: validation fail-fast.  In both modules, whenever an invocation ends
\* with a validation error, no mutating call has been issued in it, and the
\* outcome record has changed=false and an empty action log.
C11_ValidationFailFast ==
    ValidationFailed
        => /\ NoMutation
           /\ ~results.changed
           /\ results.actions = <<>>

\* the part of C11 that holds: a validation error precedes every mutating call
C11_NoMutationBeforeValidationError == ValidationFailed => NoMutation

\* the validation errors raised before the fetch leave the outcome untouched
C11_EarlyValidationClean ==
    (ValidationFailed /\ Count(calls, "virtual_machines.get") = 0
                      /\ Count(calls, "virtual_networks.get") = 0)
        => ~results.changed /\ results.actions = <<>>

\* the last call of the invocation is the fetch of the resource, it raised,
\* and the resource exists: the error was not "not found"
FetchRaisedOther ==
    /\ Len(calls) > 0
    /\ calls[Len(calls)][1] = "raise"
    /\ \/ IsVM /\ calls[Len(calls)][2] = "virtual_machines.get" /\ IsSet(remote.vm)
       \/ IsVNet /\ calls[Len(calls)][2] = "virtual_networks.get" /\ IsSet(remote.vnet)

\* C12: fetch failures are distinguished.  In both modules, when the fetch of
\* the resource fails with an error other than "not found", the invocation
\* aborts with a fatal error: it neither goes on to create the resource nor
\* returns a changed=false success.
C12_FetchFailureFatal ==
    FetchRaisedOther
        => /\ pc = "failed"
           /\ failure = "remote"

\* where C12's bug leads: a create-or-update built for creation is sent for a
\* VM that exists, or state=absent returns changed=false with the VM in place
C12_NeverCreatesOverExisting ==
    /\ (IsVM /\ pc \in {"create", "default_nic", "default_storage", "create_vm"}
          => ~IsSet(remote.vm))
    /\ (IsVNet /\ pc = "vnet_create" => ~IsSet(remote.vnet))
    /\ (p.state = "absent" /\ Done /\ ~results.changed
          => IF IsVM THEN ~IsSet(remote.vm) ELSE ~IsSet(remote.vnet))

\* a returned, real invocation with a non-absent intent whose fetch reported
\* the resource missing; validation has passed and no call was failed
CreatedWhenMissing ==
    /\ Done /\ CleanRun
    /\ p.state \in NonAbsent
    /\ IF IsVM THEN ~IsSet(loc.vm) ELSE ~IsSet(loc.vnet)

\* the VirtualMachine that the DesiredState p describes
ExpectedVMCreation ==
    [vmSize |-> p.vm_size,
     image |-> [p.image[1] EXCEPT
                  !.version = IF @ = "latest" THEN ImageVersions[Len(ImageVersions)] ELSE @],
     caching |-> p.os_disk_caching,
     nics |-> IF Truthy(p.network_interface_names)
              THEN [i \in 1..Len(p.network_interface_names[1]) |->
                       <<"networkInterfaces", p.network_interface_names[1][i]>>]
              ELSE << <<"networkInterfaces", "vm01">> >>,
     computerName |-> IF p.short_hostname = None THEN "vm" ELSE p.short_hostname,
     adminUsername |-> p.admin_username,
     vhdUri |-> <<"https",
                  IF p.storage_account_name = None THEN "vm01" ELSE p.storage_account_name,
                  p.storage_container_name,
                  IF p.storage_blob_name = None THEN "vm.vhd" ELSE p.storage_blob_name>>,
     tags |-> p.tags]

\* the VirtualNetwork that the DesiredState p describes
ExpectedVNetCreation ==
    [address_prefixes |-> p.address_prefixes_cidr[1],
     dhcp |-> IF Truthy(p.dns_servers) THEN p.dns_servers ELSE <<>>,
     tags |-> IF IsSet(p.tags) /\ p.tags[1] # {} THEN p.tags ELSE <<>>]

\* C13: create when missing.  In both modules, a returned non-check invocation
\* with a non-absent state whose fetch found nothing (valid parameters, no
\* remote failure) reports changed=true and has issued exactly one
\* create-or-update call for the resource, whose payload is built from the
\* DesiredState: for the VM the size, image reference, OS-disk caching,
\* hostname defaulting to the VM name, blob name defaulting to "<name>.vhd",
\* and the supplied or defaulted NIC ids.
C13_CreateWhenMissing ==
    CreatedWhenMissing
        => /\ results.changed
           /\ IF IsVM
              THEN /\ Count(calls, "virtual_machines.create_or_update") = 1
                   /\ loc.sent = Some(ExpectedVMCreation)
                   /\ IsSet(remote.vm)
                   /\ remote.vm[1].vmSize = p.vm_size
                   /\ remote.vm[1].nics = ExpectedVMCreation.nics
              ELSE /\ Count(calls, "virtual_networks.create_or_update") = 1
                   /\ loc.sent = Some(ExpectedVNetCreation)
                   /\ IsSet(remote.vnet)
                   /\ remote.vnet[1].address_prefixes = p.address_prefixes_cidr[1]

\* a VM created with every default resolved: NIC, storage account, hostname,
\* blob name
C13_Witness ==
    /\ CreatedWhenMissing /\ IsVM
    /\ ~Truthy(p.network_interface_names)
    /\ p.storage_account_name = None
    /\ Count(calls, "virtual_machines.create_or_update") = 1
    /\ remote.vm[1].computerName = "vm"
    /\ remote.vm[1].vhdUri = <<"https", "vm01", "vhds", "vm.vhd">>

\* the fetch returned the VM and the diff recorded no difference
UnchangedVM ==
    /\ VMFetched
    /\ p.state \in NonAbsent
    /\ results.differences = Some(<<>>)

\* C14: exists and unchanged.  When the VM exists and the diff is empty, the
\* invocation issues no create-or-update call whatever the state intent; the
\* only mutating call it may issue is a single power-on (state=started, VM not
\* running) or a single power-off (state=stopped, VM running).
C14_UnchangedNoUpdate ==
    UnchangedVM
        => /\ Count(calls, "virtual_machines.create_or_update") = 0
           /\ Len(Mutations(calls)) <= 1
           /\ Len(Mutations(calls)) = Count(calls, "virtual_machines.start")
                                      + Count(calls, "virtual_machines.power_off")
           /\ (Count(calls, "virtual_machines.start") > 0
                 => p.state = "started" /\ FetchedPower # "running")
           /\ (Count(calls, "virtual_machines.power_off") > 0
                 => p.state = "stopped" /\ FetchedPower = "running")
           /\ pc \notin {"create", "create_vm", "update", "delete"}

\* an unchanged running VM under state=stopped: one power-off and nothing else
C14_Witness ==
    /\ UnchangedVM /\ Done /\ CleanRun
    /\ p.state = "stopped"
    /\ Mutations(calls) = <<Call("virtual_machines.power_off", VMName)>>
    /\ results.changed

\* the tag mapping the spec asks for: current tags C overridden by desired
\* tags D, or exactly D under purge
TagKeys(T) == {kv[1] : kv \in T}
TargetTags(C, D, purge) ==
    IF purge THEN D ELSE {kv \in C : kv[1] \notin TagKeys(D)} \cup D
DesiredTags == IF IsSet(p.tags) THEN p.tags[1] ELSE {}

\* the diff of this invocation recorded the difference named n
Recorded(n) ==
    /\ IsSet(results.differences)
    /\ \E i \in 1..Len(results.differences[1]) : results.differences[1][i] = n

DesiredNicIds ==
    [i \in 1..Len(p.network_interface_names[1]) |->
        <<"networkInterfaces", p.network_interface_names[1][i]>>]
DesiredImageVersion ==
    IF p.image[1].version = "latest" THEN ImageVersions[Len(ImageVersions)]
    ELSE p.image[1].version

\* the merged target of a VM update: the desired value for every recorded
\* difference, the fetched value for every other field
ExpectedVMUpdate ==
    LET cur == loc.vm[1]
    IN [vmSize |-> IF Recorded("VM Size") THEN p.vm_size ELSE cur.vmSize,
        image |-> [publisher |-> IF Recorded("Image") THEN p.image[1].publisher
                                 ELSE cur.image.publisher,
                   offer |-> IF Recorded("Image") THEN p.image[1].offer ELSE cur.image.offer,
                   sku |-> IF Recorded("Image") THEN p.image[1].sku ELSE cur.image.sku,
                   version |-> IF Recorded("Image versions") THEN DesiredImageVersion
                               ELSE cur.image.version],
        caching |-> IF Recorded("OS Disk caching") THEN p.os_disk_caching ELSE cur.caching,
        nics |-> IF Recorded("Network Interfaces") THEN DesiredNicIds ELSE cur.nics,
        computerName |-> IF Recorded("Short Hostname") THEN p.short_hostname
                         ELSE cur.computerName,
        adminUsername |-> cur.adminUsername,
        vhdUri |-> cur.vhdUri,
        tags |-> IF Recorded("Tags") THEN TargetTags(cur.tags, DesiredTags, p.purge_tags)
                 ELSE cur.tags]

\* the payload sent, its tags read as a mapping (no tags: the empty mapping)
SentTags == IF IsSet(loc.sent[1].tags) THEN loc.sent[1].tags[1] ELSE {}
SentVM == [loc.sent[1] EXCEPT !.tags = SentTags]

\* the prefixes, DNS servers and tags a virtual-network update has to carry
ExpectedVNetPrefixes ==
    LET C == Range(loc.vnet[1].address_prefixes)
        D == IF Truthy(p.address_prefixes_cidr) THEN Range(p.address_prefixes_cidr[1]) ELSE {}
    IN IF ~Truthy(p.address_prefixes_cidr) THEN C
       ELSE IF p.purge_address_prefixes THEN D
       ELSE C \cup D
ExpectedVNetDns ==
    LET cur == IF IsSet(loc.vnet[1].dhcp) THEN loc.vnet[1].dhcp[1] ELSE <<>>
    IN IF Truthy(p.dns_servers) /\ Range(p.dns_servers[1]) # Range(cur) THEN p.dns_servers[1]
       ELSE IF p.purge_dns_servers THEN <<>>
       ELSE cur

\* a real invocation with a non-absent intent has ended without an injected
\* failure, its fetch returned the resource and its diff was not empty
ChangedExisting ==
    /\ pc \in {"done", "failed"} /\ CleanRun
    /\ p.state \in NonAbsent
    /\ IF IsVM THEN VMFetched /\ IsSet(results.differences) /\ Len(results.differences[1]) > 0
       ELSE IsSet(loc.vnet) /\ results.changed

\* C15: exists and changed.  In both modules, when the resource exists and the
\* diff is non-empty, a non-check invocation issues exactly one
\* create-or-update call whose payload is the merged target: every diffed
\* field carries the desired value, every other field the fetched value.
C15_ChangedSendsMergedTarget ==
    ChangedExisting
        => /\ Done
           /\ IF IsVM
              THEN /\ Count(calls, "virtual_machines.create_or_update") = 1
                   /\ IsSet(loc.sent) /\ SentVM = ExpectedVMUpdate
              ELSE /\ Count(calls, "virtual_networks.create_or_update") = 1
                   /\ IsSet(loc.sent)
                   /\ Range(loc.sent[1].address_prefixes) = ExpectedVNetPrefixes
                   /\ (IF IsSet(loc.sent[1].dhcp) THEN loc.sent[1].dhcp[1] ELSE <<>>)
                          = ExpectedVNetDns
                   /\ SentTags = TargetTags(loc.vnet[1].tags, DesiredTags, p.purge_tags)

\* the cases of C15 that the defects of C20 and C38 do not reach: every VM,
\* and a virtual network with DNS servers configured and no purge of address
\* prefixes with nothing to remove
C15_OutsideKnownDefects ==
    (/\ ChangedExisting
     /\ IF IsVM THEN TRUE
        ELSE /\ IsSet(loc.vnet[1].dhcp) /\ Len(loc.vnet[1].dhcp[1]) > 0
             /\ ~(/\ p.purge_address_prefixes
                  /\ Range(loc.vnet[1].address_prefixes) \subseteq ExpectedVNetPrefixes
                  /\ Range(loc.vnet[1].address_prefixes) # ExpectedVNetPrefixes))
        => /\ Done
           /\ IF IsVM
              THEN /\ Count(calls, "virtual_machines.create_or_update") = 1
                   /\ IsSet(loc.sent) /\ SentVM = ExpectedVMUpdate
              ELSE /\ Count(calls, "virtual_networks.create_or_update") = 1
                   /\ IsSet(loc.sent)
                   /\ Range(loc.sent[1].address_prefixes) = ExpectedVNetPrefixes
                   /\ (IF IsSet(loc.sent[1].dhcp) THEN loc.sent[1].dhcp[1] ELSE <<>>)
                          = ExpectedVNetDns
                   /\ SentTags = TargetTags(loc.vnet[1].tags, DesiredTags, p.purge_tags)

\* the OS-disk location the DesiredState names
DesiredVhdUri ==
    <<"https", p.storage_account_name, p.storage_container_name,
      IF p.storage_blob_name = None THEN "vm.vhd" ELSE p.storage_blob_name>>

\* the DesiredState names another administrator, a password, or another
\* OS-disk location than the fetched VM has
ImmutableDiffers ==
    \/ p.admin_username # None /\ p.admin_username # loc.vm[1].adminUsername
    \/ p.admin_password # None
    \/ p.storage_account_name # None /\ DesiredVhdUri # loc.vm[1].vhdUri

\* a field the diff does compare differs from the fetched VM
MutableDiffers ==
    LET cur == loc.vm[1]
    IN \/ p.vm_size # None /\ p.vm_size # cur.vmSize
       \/ Truthy(p.network_interface_names) /\ Range(DesiredNicIds) # Range(cur.nics)
       \/ IsSet(p.image)
          /\ (\/ p.image[1].publisher # cur.image.publisher
              \/ p.image[1].offer # cur.image.offer
              \/ p.image[1].sku # cur.image.sku
              \/ DesiredImageVersion # cur.image.version)
       \/ p.os_disk_caching # None /\ p.os_disk_caching # cur.caching
       \/ TargetTags(cur.tags, DesiredTags, p.purge_tags) # cur.tags
       \/ p.short_hostname # None /\ p.short_hostname # cur.computerName

ComparedFields ==
    {"Network Interfaces", "VM Size", "Image", "Image versions", "OS Disk caching",
     "Tags", "Short Hostname"}

\* C16: immutable fields.  For an existing VM, a desired admin_username,
\* admin_password or OS-disk location that differs from the current one adds
\* no entry to the differences list and does not by itself set changed (the
\* differences and the changed flag are those of the compared fields and of
\* the power state), every update payload carries the fetched admin username
\* and VHD URI, and the invocation is not rejected for it.
C16_ImmutableFieldsIgnored ==
    (VMFetched /\ p.state \in NonAbsent /\ ImmutableDiffers)
        => /\ \A i \in 1..Len(results.differences[1]) :
                 results.differences[1][i] \in ComparedFields
           /\ (Len(results.differences[1]) > 0) = MutableDiffers
           /\ results.changed
                 = (MutableDiffers \/ PowerStateChange(p.state, FetchedPower) # None)
           /\ (IsSet(loc.sent)
                 => /\ loc.sent[1].adminUsername = loc.vm[1].adminUsername
                    /\ loc.sent[1].vhdUri = loc.vm[1].vhdUri)
           /\ (IsSet(remote.vm)
                 => /\ remote.vm[1].adminUsername = loc.vm[1].adminUsername
                    /\ remote.vm[1].vhdUri = loc.vm[1].vhdUri)
           /\ (pc = "failed" => faulted)

\* another administrator, password and container are asked for together with
\* another size: the update goes out with the fetched username and VHD URI
C16_Witness ==
    /\ VMFetched /\ Done /\ CleanRun
    /\ p.admin_username = "root" /\ p.admin_password = "pw"
    /\ p.storage_container_name = "other"
    /\ Count(calls, "virtual_machines.create_or_update") = 1
    /\ results.differences = Some(<<"VM Size">>)
    /\ remote.vm[1].adminUsername = "admin"
    /\ remote.vm[1].vhdUri = <<"https", "sa1", "vhds", "vm.vhd">>

\* the same request with the size unchanged changes nothing
C16_WitnessUnchanged ==
    /\ VMFetched /\ Done /\ CleanRun
    /\ p.admin_username = "root" /\ p.storage_blob_name = "disk.vhd"
    /\ ~results.changed /\ results.differences = Some(<<>>)
    /\ NoMutation

\* C17: VM size diff.  For an existing VM and every desired size S, the
\* differences list contains "VM Size" if and only if S differs from the
\* current size; when it does, the size of the target representation (and of
\* the update sent) is S, and otherwise it is the current size.
C17_VMSizeDiff ==
    (VMFetched /\ p.state \in NonAbsent)
        => /\ Recorded("VM Size") = (p.vm_size # loc.vm[1].vmSize)
           /\ loc.vm_dict[1].vmSize = p.vm_size
           /\ (Recorded("VM Size") => results.changed)
           /\ (IsSet(loc.sent) => loc.sent[1].vmSize = p.vm_size)

\* size A1 was fetched, D1 was asked for, recorded and applied
C17_Witness ==
    /\ VMFetched /\ Done /\ CleanRun
    /\ loc.vm[1].vmSize = "A1" /\ p.vm_size = "D1"
    /\ Recorded("VM Size")
    /\ remote.vm[1].vmSize = "D1"

\* the desired size equals the current one while another field differs
C17_WitnessSameSize ==
    /\ VMFetched /\ Done /\ CleanRun
    /\ p.vm_size = loc.vm[1].vmSize
    /\ ~Recorded("VM Size") /\ Len(results.differences[1]) > 0

\* the fetched tags C and the target tags of this invocation
FetchedTags == IF IsVM THEN loc.vm[1].tags ELSE loc.vnet[1].tags
ReconciledTags == TargetTags(FetchedTags, DesiredTags, p.purge_tags)

\* a field of the virtual network other than the tags asks for a change
VNetOtherDiffers ==
    LET C == Range(loc.vnet[1].address_prefixes)
        D == Range(p.address_prefixes_cidr[1])
        dns == IF IsSet(loc.vnet[1].dhcp) THEN loc.vnet[1].dhcp[1] ELSE <<>>
    IN \/ Truthy(p.address_prefixes_cidr)
          /\ (D \ C # {} \/ (p.purge_address_prefixes /\ C \ D # {}))
       \/ Truthy(p.dns_servers) /\ Range(p.dns_servers[1]) # Range(dns)
       \/ p.purge_dns_servers /\ Len(dns) > 0

\* C18: tag reconciliation.  For current tags C and desired tags D, the target
\* tags are C overridden by D when purge_tags is false (keys of C not in D are
\* kept) and exactly D when it is true; "Tags" is recorded (VM) and changed is
\* set by the tags if and only if the target tags differ from C.
C18_TagReconciliation ==
    /\ (VMFetched /\ p.state \in NonAbsent
          => /\ loc.vm_dict[1].tags = ReconciledTags
             /\ Recorded("Tags") = (ReconciledTags # FetchedTags)
             /\ results.changed
                   = (MutableDiffers \/ PowerStateChange(p.state, FetchedPower) # None)
             /\ (IsSet(loc.sent) => SentTags = ReconciledTags))
    /\ (IsVNet /\ IsSet(loc.vnet) /\ p.state = "present"
          => /\ results.results[1].tags = ReconciledTags
             /\ results.changed = (ReconciledTags # FetchedTags \/ VNetOtherDiffers)
             /\ (IsSet(loc.sent) => SentTags = ReconciledTags))

\* {a:1, b:2} reconciled with {b:3, c:4} without purge gives {a:1, b:3, c:4}
C18_Witness ==
    /\ VMFetched /\ Done /\ CleanRun
    /\ FetchedTags = {<<"a", "1">>, <<"b", "2">>}
    /\ DesiredTags = {<<"b", "3">>, <<"c", "4">>} /\ ~p.purge_tags
    /\ results.differences = Some(<<"Tags">>)
    /\ remote.vm[1].tags = {<<"a", "1">>, <<"b", "3">>, <<"c", "4">>}

\* the same with purge gives {b:3, c:4}, on a virtual network
C18_WitnessPurge ==
    /\ IsVNet /\ IsSet(loc.vnet) /\ Done /\ CleanRun
    /\ FetchedTags = {<<"a", "1">>, <<"b", "2">>}
    /\ DesiredTags = {<<"b", "3">>, <<"c", "4">>} /\ p.purge_tags
    /\ results.changed
    /\ remote.vnet[1].tags = {<<"b", "3">>, <<"c", "4">>}

\* desired tags already contained in the current ones, no purge: no change
C18_WitnessSubset ==
    /\ VMFetched /\ Done /\ CleanRun
    /\ FetchedTags = {<<"a", "1">>, <<"b", "2">>}
    /\ DesiredTags = {<<"a", "1">>} /\ ~p.purge_tags
    /\ ~results.changed /\ ~Recorded("Tags")

\* the current prefix set C and the desired prefix set D
CurrentPrefixes == Range(loc.vnet[1].address_prefixes)
DesiredPrefixes ==
    IF Truthy(p.address_prefixes_cidr) THEN Range(p.address_prefixes_cidr[1]) ELSE {}
\* the tags or the DNS servers ask for a change
VNetTagsOrDnsDiffer ==
    LET dns == IF IsSet(loc.vnet[1].dhcp) THEN loc.vnet[1].dhcp[1] ELSE <<>>
    IN \/ ReconciledTags # FetchedTags
       \/ Truthy(p.dns_servers) /\ Range(p.dns_servers[1]) # Range(dns)
       \/ p.purge_dns_servers /\ Len(dns) > 0

\* the fetch returned the virtual network and the diff ran with state=present
VNetDiffed == IsVNet /\ IsSet(loc.vnet) /\ p.state = "present"

\* C19: address prefixes without purge.  For an existing virtual network with
\* current prefixes C, desired prefixes D and purge_address_prefixes=false,
\* the prefixes of the target and of every update sent are exactly C union D
\* (nothing is removed), and the prefixes set changed if and only if D is not
\* a subset of C.
C19_PrefixesWithoutPurge ==
    (VNetDiffed /\ ~p.purge_address_prefixes)
        => /\ (IsSet(loc.sent)
                 => Range(loc.sent[1].address_prefixes) = CurrentPrefixes \cup DesiredPrefixes)
           /\ (IsSet(loc.sent) /\ IsSet(remote.vnet) /\ pc = "done"
                 => Range(remote.vnet[1].address_prefixes)
                       = CurrentPrefixes \cup DesiredPrefixes)
           /\ results.changed
                 = (~(DesiredPrefixes \subseteq CurrentPrefixes) \/ VNetTagsOrDnsDiffer)

\* {p1} with desired {p1, p2} and no purge: the update carries {p1, p2}
C19_Witness ==
    /\ VNetDiffed /\ ~p.purge_address_prefixes /\ Done /\ CleanRun
    /\ CurrentPrefixes = {"p1"} /\ DesiredPrefixes = {"p1", "p2"}
    /\ ~VNetTagsOrDnsDiffer
    /\ results.changed
    /\ Count(calls, "virtual_networks.create_or_update") = 1
    /\ Range(remote.vnet[1].address_prefixes) = {"p1", "p2"}

\* {p1, p2} with desired {p2} and no purge: nothing is removed, no change
C19_WitnessSubset ==
    /\ VNetDiffed /\ ~p.purge_address_prefixes /\ Done /\ CleanRun
    /\ CurrentPrefixes = {"p1", "p2"} /\ DesiredPrefixes = {"p2"}
    /\ ~VNetTagsOrDnsDiffer
    /\ ~results.changed /\ NoMutation

\* C20: address prefixes with purge.  For an existing virtual network with
\* current prefixes C, desired prefixes D and purge_address_prefixes=true,
\* whenever C differs from D the invocation asks for a change and the prefixes
\* of every update sent are exactly D, also when D is a strict superset of C.
C20_PrefixesWithPurge ==
    (VNetDiffed /\ p.purge_address_prefixes /\ CurrentPrefixes # DesiredPrefixes)
        => /\ results.changed
           /\ (IsSet(loc.sent) => Range(loc.sent[1].address_prefixes) = DesiredPrefixes)

\* the part of C20 that the code does: when there is a prefix to remove, the
\* update carries exactly D
C20_PurgeWithExtraPrefixes ==
    (VNetDiffed /\ p.purge_address_prefixes /\ CurrentPrefixes \ DesiredPrefixes # {})
        => /\ results.changed
           /\ (IsSet(loc.sent) => Range(loc.sent[1].address_prefixes) = DesiredPrefixes)

\* the fetch of this invocation returned the virtual network (it did not raise)
\* and the diff of state=present ran, to its end or to an unhandled error
VNetFetchReturned ==
    /\ IsVNet /\ p.state = "present"
    /\ Count(calls, "virtual_networks.get") = 1
    /\ \A i \in 1..Len(calls) : calls[i] # Raise("virtual_networks.get")

\* the network the fetch returned: nothing was sent yet when the diff failed
FetchedVNet == IF IsSet(loc.vnet) THEN loc.vnet[1] ELSE remote.vnet[1]
\* its DNS servers; a network without dhcp_options has none
CurrentDns == IF IsSet(FetchedVNet.dhcp) THEN FetchedVNet.dhcp[1] ELSE <<>>
DesiredDns == IF Truthy(p.dns_servers) THEN p.dns_servers[1] ELSE <<>>
SentDns == IF IsSet(loc.sent[1].dhcp) THEN loc.sent[1].dhcp[1] ELSE <<>>

\* the address prefixes or the tags ask for a change
VNetPrefixesOrTagsDiffer ==
    LET C == Range(FetchedVNet.address_prefixes)
    IN \/ DesiredPrefixes \ C # {}
       \/ p.purge_address_prefixes /\ Truthy(p.address_prefixes_cidr) /\ C \ DesiredPrefixes # {}
       \/ TargetTags(FetchedVNet.tags, DesiredTags, p.purge_tags) # FetchedVNet.tags

\* C21: DNS servers.  For an existing virtual network: a desired DNS list whose
\* set differs from the current set sets changed and the update carries
\* exactly the desired list; equal sets (in any order) contribute no change;
\* purge_dns_servers with a non-empty current list sets changed and the update
\* carries no DNS servers; purge_dns_servers with an empty current list
\* contributes no change.
C21_DnsServers ==
    VNetFetchReturned
        => /\ (Truthy(p.dns_servers) /\ Range(DesiredDns) # Range(CurrentDns)
                 => /\ results.changed
                    /\ (IsSet(loc.sent) => SentDns = DesiredDns))
           /\ (Truthy(p.dns_servers) /\ Range(DesiredDns) = Range(CurrentDns)
                 => /\ results.changed = VNetPrefixesOrTagsDiffer
                    /\ (IsSet(loc.sent) => SentDns = CurrentDns))
           /\ (p.purge_dns_servers /\ Len(CurrentDns) > 0
                 => /\ results.changed
                    /\ (IsSet(loc.sent) => SentDns = <<>>))
           /\ (p.purge_dns_servers /\ Len(CurrentDns) = 0
                 => results.changed = VNetPrefixesOrTagsDiffer)

\* the cases of C21 in which the fetched network carries dhcp_options (with
\* or without servers): there the DNS rules hold
C21_DnsWithDhcpOptions ==
    (VNetFetchReturned /\ IsSet(FetchedVNet.dhcp))
        => /\ (Truthy(p.dns_servers) /\ Range(DesiredDns) # Range(CurrentDns)
                 => /\ results.changed
                    /\ (IsSet(loc.sent) => SentDns = DesiredDns))
           /\ (Truthy(p.dns_servers) /\ Range(DesiredDns) = Range(CurrentDns)
                 => /\ results.changed = VNetPrefixesOrTagsDiffer
                    /\ (IsSet(loc.sent) => SentDns = CurrentDns))
           /\ (p.purge_dns_servers /\ Len(CurrentDns) > 0
                 => /\ results.changed
                    /\ (IsSet(loc.sent) => SentDns = <<>>))
           /\ (p.purge_dns_servers /\ Len(CurrentDns) = 0
                 => results.changed = VNetPrefixesOrTagsDiffer)

\* DNS servers replaced in another order than the current ones, and purged
C21_WitnessReplaced ==
    /\ VNetFetchReturned /\ Done /\ CleanRun
    /\ CurrentDns = <<"d1", "d2">> /\ DesiredDns = <<"d1">>
    /\ IsSet(loc.sent) /\ SentDns = <<"d1">>
C21_WitnessSameSet ==
    /\ VNetFetchReturned /\ Done /\ CleanRun
    /\ CurrentDns = <<"d1", "d2">> /\ DesiredDns = <<"d2", "d1">>
    /\ ~results.changed
C21_WitnessPurged ==
    /\ VNetFetchReturned /\ Done /\ CleanRun
    /\ p.purge_dns_servers /\ CurrentDns = <<"d1", "d2">>
    /\ IsSet(loc.sent) /\ ~IsSet(remote.vnet[1].dhcp)

\* the names the specification allows: letters, digits, underscores and
\* hyphens, ending in a letter of either case, a digit or an underscore
AllowedNameChars == LowerChars \cup UpperChars \cup DigitChars \cup {"_", "-"}
NameAllowed(name) ==
    /\ Len(name) >= 1
    /\ \A i \in 1..Len(name) : name[i] \in AllowedNameChars
    /\ name[Len(name)] \in LowerChars \cup UpperChars \cup DigitChars \cup {"_"}

\* the virtual-network invocation is past its parameter checks, which could
\* only reject the name (the prefix checks run under purge_address_prefixes)
VNetNameChecked ==
    /\ IsVNet /\ ~p.purge_address_prefixes
    /\ pc # "start"
    /\ calls[Len(calls)] # Raise("resource_groups.get")
\* the invocation was rejected before the network was fetched
RejectedBeforeFetch ==
    /\ ValidationFailed
    /\ Count(calls, "virtual_networks.get") = 0

\* C22: virtual-network name validation.  A name is accepted if and only if it
\* consists only of letters, digits, underscores and hyphens and its last
\* character is a letter (either case), a digit or an underscore; a rejected
\* name aborts the invocation before the network is fetched or modified.
C22_NameValidation ==
    VNetNameChecked
        => /\ RejectedBeforeFetch = ~NameAllowed(p.name)
           /\ (RejectedBeforeFetch => NoMutation)

\* the two names the specification gives, and the abort before the fetch
C22_NameExamples ==
    VNetNameChecked
        => /\ (p.name = <<"M", "y", "_", "N", "e", "t", "w", "o", "r", "k", "1">>
                 => ~RejectedBeforeFetch)
           /\ (p.name = <<"m", "y", "-", "n", "e", "t", "w", "o", "r", "k", "-">>
                 => RejectedBeforeFetch)
           /\ (~NameAllowed(p.name) => RejectedBeforeFetch /\ NoMutation)

\* a supplied address prefix is not in CIDR syntax
MalformedPrefixSupplied ==
    /\ Truthy(p.address_prefixes_cidr)
    /\ \E i \in 1..Len(p.address_prefixes_cidr[1]) :
          ~CIDR_PATTERN_match(p.address_prefixes_cidr[1][i])

\* C23: address-prefix validation.  For every invocation of the
\* virtual-network module with state=present, whatever purge_address_prefixes
\* is, a malformed address prefix aborts the invocation with a validation
\* error before a create-or-update call is issued, and no create-or-update
\* payload contains a malformed prefix.
C23_PrefixValidation ==
    (IsVNet /\ p.state = "present")
        => /\ (MalformedPrefixSupplied /\ NameAllowed(p.name) /\ pc # "start"
               /\ calls[Len(calls)] # Raise("resource_groups.get")
                 => RejectedBeforeFetch)
           /\ (MalformedPrefixSupplied
                 => Count(calls, "virtual_networks.create_or_update") = 0)
           /\ (IsSet(loc.sent)
                 => \A i \in 1..Len(loc.sent[1].address_prefixes) :
                       CIDR_PATTERN_match(loc.sent[1].address_prefixes[i]))

\* the part of C23 that the code does: under purge_address_prefixes a
\* malformed prefix is rejected before the fetch
C23_PrefixValidationUnderPurge ==
    (IsVNet /\ p.state = "present" /\ p.purge_address_prefixes)
        => /\ (MalformedPrefixSupplied /\ pc # "start"
               /\ calls[Len(calls)] # Raise("resource_groups.get")
                 => RejectedBeforeFetch)
           /\ (MalformedPrefixSupplied
                 => Count(calls, "virtual_networks.create_or_update") = 0)
           /\ (IsSet(loc.sent)
                 => \A i \in 1..Len(loc.sent[1].address_prefixes) :
                       CIDR_PATTERN_match(loc.sent[1].address_prefixes[i]))

\* where the missing check leads: a network holding a malformed prefix
C23_RemoteNeverMalformed ==
    (IsVNet /\ IsSet(remote.vnet))
        => \A i \in 1..Len(remote.vnet[1].address_prefixes) :
              CIDR_PATTERN_match(remote.vnet[1].address_prefixes[i])

\* the action-log entry of a delete call
ActionOf(c) ==
    CASE c[1] = "virtual_machines.delete" -> <<"Deleted virtual machine", c[2]>>
      [] c[1] = "blob.delete_blob" -> <<"Deleted blob", c[2]>>
      [] c[1] = "network_interfaces.delete" -> <<"Deleted network interface", c[2]>>
      [] c[1] = "public_ip_addresses.delete" -> <<"Deleted public IP", c[2]>>
      [] OTHER -> <<"", c[2]>>
ActionsOf(cs) ==
    LET ds == SelectSeq(cs, LAMBDA c : c[1] \in DeleteOps)
    IN [i \in 1..Len(ds) |-> ActionOf(ds[i])]

\* a VM deletion that failed at some step: the last entry of calls is the
\* call that raised
CascadeFailed ==
    /\ IsVM /\ p.state = "absent" /\ VMFetched
    /\ pc = "failed"
    /\ Len(calls) > 0 /\ calls[Len(calls)][1] = "raise"
\* the calls that returned before the failure
CompletedCalls ==
    IF calls[Len(calls)][2] \in DeleteOps
    THEN SubSeq(calls, 1, Len(calls) - 2)
    ELSE SubSeq(calls, 1, Len(calls) - 1)

\* C24: action log on partial cascade failure.  When a VM deletion with
\* cascade fails at some step, the action log at the moment of failure has an
\* entry for exactly the delete steps that completed, and none for the step
\* that failed or for the steps never attempted.
C24_ActionLogOnCascadeFailure ==
    CascadeFailed => results.actions = ActionsOf(CompletedCalls)

\* what the code records: one entry for every delete step attempted, the one
\* that failed included, and none for the steps never attempted
C24_ActionLogRecordsAttempts ==
    CascadeFailed => results.actions = ActionsOf(calls)

\* the NICs attached to the fetched VM
AttachedNics == Len(loc.vm[1].nics)

C25_WitnessNicsOnly ==
    /\ IsVM /\ p.state = "absent" /\ VMFetched /\ Done /\ CleanRun
    /\ ~p.delete_public_ips /\ p.delete_network_interfaces /\ ~p.delete_virtual_storage
    /\ Count(calls, "network_interfaces.delete") = 2
    /\ remote.pips = {"pip1", "pip2"}
    /\ remote.blobs # {}

\* the create calls of the default NIC and of what it needs
DefaultNicCreates(cs) ==
    Count(cs, "network_interfaces.create_or_update")
    + Count(cs, "public_ip_addresses.create_or_update")
    + Count(cs, "network_security_groups.create_or_update")

\* C26: default dependent resources are looked up before being created.
\* During VM creation without a supplied NIC (resp. storage account), if a NIC
\* (resp. storage account) named "<vm-name>01" exists, no step issues a create
\* call for it, nor for the default public IP and security group in the NIC
\* case; a create call is issued only when the lookup reported not found.
C26_DefaultsLookedUpFirst ==
    [][/\ ((pc \in {"default_nic", "default_pip", "default_sg", "create_nic"}
             /\ NicExists(remote, Plus01(VMName)))
             => DefaultNicCreates(calls') = 0)
       /\ (pc = "default_storage" /\ Plus01(VMName) \in remote.sas
             => Count(calls', "storage_accounts.create") = 0)]_vars

\* the same when no lookup of the behaviour was made to fail: an existing
\* default NIC or storage account is used as it is, a missing one is created
\* once
C26_LookupWithoutFailure ==
    (IsVM /\ Done /\ CleanRun /\ p.state \in NonAbsent /\ ~IsSet(loc.vm))
        => /\ (~Truthy(p.network_interface_names)
                 => /\ remote.vm[1].nics = <<NicId(Plus01(VMName))>>
                    /\ IF NicRec(Plus01(VMName), None) \in remote.nics
                       THEN DefaultNicCreates(calls) = 0
                       ELSE /\ DefaultNicCreates(calls) = 3
                            /\ NicRec(Plus01(VMName), Plus01(VMName)) \in remote.nics)
           /\ (Truthy(p.network_interface_names) => DefaultNicCreates(calls) = 0)
           /\ (p.storage_account_name # None => Count(calls, "storage_accounts.create") = 0)
           /\ Count(calls, "storage_accounts.create") <= 1

\* a VM created on the default NIC and storage account that were there before
C26_WitnessFound ==
    /\ IsVM /\ Done /\ CleanRun /\ p.state \in NonAbsent /\ ~IsSet(loc.vm)
    /\ ~Truthy(p.network_interface_names) /\ p.storage_account_name = None
    /\ NicRec(Plus01(VMName), None) \in remote.nics
    /\ DefaultNicCreates(calls) = 0
    /\ Count(calls, "storage_accounts.create") = 0
    /\ Count(calls, "virtual_machines.create_or_update") = 1

\* what a mutating call that returned has left in the remote state
MutationInEffect(c) ==
    CASE c[1] \in DeleteOps -> DeleteInEffect(c)
      [] c[1] = "public_ip_addresses.create_or_update" -> c[2] \in remote.pips
      [] c[1] = "network_security_groups.create_or_update" -> c[2] \in remote.sgs
      [] c[1] = "network_interfaces.create_or_update" -> NicExists(remote, c[2])
      [] c[1] = "storage_accounts.create" -> c[2] \in remote.sas
      [] c[1] = "virtual_machines.create_or_update" ->
             IsSet(remote.vm) /\ IsSet(loc.sent) /\ remote.vm[1].vmSize = loc.sent[1].vmSize
      [] c[1] = "virtual_networks.create_or_update" -> IsSet(remote.vnet)
      [] OTHER -> TRUE

\* C27: no retry and no rollback.  In both modules, once a remote create,
\* update, delete or power call has failed, the invocation has ended in a
\* fatal error, the failed call is the last call issued and was issued once,
\* no step follows, and every mutation that succeeded before it is still in
\* the remote state.
C27_NoRetryNoRollback ==
    /\ [](\A i \in 1..Len(calls) :
            (calls[i][1] = "raise" /\ calls[i][2] \in MutatingOps)
              => /\ i = Len(calls)
                 /\ pc = "failed" /\ failure = "remote"
                 /\ calls[i - 1][1] = calls[i][2]
                 /\ Cardinality({j \in 1..Len(calls) : calls[j] = calls[i - 1]}) = 1
                 /\ \A j \in 1..(i - 2) :
                       calls[j][1] \in MutatingOps => MutationInEffect(calls[j]))
    /\ [][pc = "failed" => (calls' = calls /\ remote' = remote /\ pc' = pc)]_vars

\* the VM create failed after the default public IP, security group, NIC and
\* storage account were created: they are still there, the VM is not
C27_Witness ==
    /\ IsVM /\ pc = "failed" /\ failure = "remote"
    /\ calls[Len(calls)] = Raise("virtual_machines.create_or_update")
    /\ DefaultNicCreates(calls) = 3
    /\ Count(calls, "storage_accounts.create") = 1
    /\ NicRec(Plus01(VMName), Plus01(VMName)) \in remote.nics
    /\ Plus01(VMName) \in remote.sas /\ Plus01(VMName) \in remote.pips
    /\ ~IsSet(remote.vm)

\* the power-off failed after the update of the VM succeeded
C27_WitnessPower ==
    /\ IsVM /\ pc = "failed" /\ failure = "remote"
    /\ calls[Len(calls)] = Raise("virtual_machines.power_off")
    /\ Count(calls, "virtual_machines.create_or_update") = 1
    /\ remote.vm[1].vmSize = "D1" /\ loc.vm[1].vmSize = "A1"

\* the update of a virtual network failed: the network is as it was fetched
C27_WitnessVNet ==
    /\ IsVNet /\ pc = "failed" /\ failure = "remote"
    /\ calls[Len(calls)] = Raise("virtual_networks.create_or_update")
    /\ IsSet(loc.vnet) /\ remote.vnet = loc.vnet

\* C28: diff implies changed.  For every invocation of the VM module against
\* an existing VM with a non-absent state, a non-empty differences list
\* implies changed=true; with state=present the converse holds too
\* (changed=true only if the differences list is non-empty).
C28_DiffImpliesChanged ==
    (VMFetched /\ p.state \in NonAbsent)
        => /\ IsSet(results.differences)
           /\ (Len(results.differences[1]) > 0 => results.changed)
           /\ (p.state = "present" => (results.changed => Len(results.differences[1]) > 0))

\* state=present with the OS-disk caching as the only difference
C28_Witness ==
    /\ VMFetched /\ p.state = "present" /\ Done /\ CleanRun
    /\ results.differences = Some(<<"OS Disk caching">>)
    /\ results.changed
    /\ Count(calls, "virtual_machines.create_or_update") = 1

\* state=started: changed by the power state alone, with no difference
C28_WitnessPowerOnly ==
    /\ VMFetched /\ p.state = "started" /\ Done /\ CleanRun
    /\ results.differences = Some(<<>>)
    /\ results.changed

\* how often the difference named n was recorded
TimesRecorded(n) ==
    Cardinality({i \in 1..Len(results.differences[1]) : results.differences[1][i] = n})

\* publisher, offer or sku of the desired image differ from the fetched VM's
ImageDiffers ==
    LET cur == loc.vm[1].image
    IN \/ p.image[1].publisher # cur.publisher
       \/ p.image[1].offer # cur.offer
       \/ p.image[1].sku # cur.sku

\* C29: image diff.  For an existing VM with a desired image, "Image" is
\* recorded (once) if and only if publisher, offer or sku differ from the
\* current image reference, and then all three are replaced in the target;
\* "Image versions" is recorded if and only if the desired version (after
\* resolving "latest") differs from the current version, independently of the
\* other three fields.
C29_ImageDiff ==
    (VMFetched /\ p.state \in NonAbsent /\ IsSet(p.image))
        => LET cur == loc.vm[1].image
               target == loc.vm_dict[1].image
           IN /\ TimesRecorded("Image") = (IF ImageDiffers THEN 1 ELSE 0)
              /\ TimesRecorded("Image versions")
                    = (IF DesiredImageVersion # cur.version THEN 1 ELSE 0)
              /\ target = [publisher |-> p.image[1].publisher, offer |-> p.image[1].offer,
                           sku |-> p.image[1].sku, version |-> DesiredImageVersion]
              /\ (~ImageDiffers => target.publisher = cur.publisher
                                   /\ target.offer = cur.offer /\ target.sku = cur.sku)
              /\ (IsSet(loc.sent) => loc.sent[1].image = target)

\* another publisher with the same resolved version: "Image" alone
C29_Witness ==
    /\ VMFetched /\ Done /\ CleanRun
    /\ p.image[1].publisher = "P2" /\ p.image[1].version = "latest"
    /\ Recorded("Image") /\ ~Recorded("Image versions")
    /\ remote.vm[1].image = [publisher |-> "P2", offer |-> "O1", sku |-> "S1", version |-> "v2"]

\* another version of the same image: "Image versions" alone
C29_WitnessVersion ==
    /\ VMFetched /\ Done /\ CleanRun
    /\ p.image[1] = [BaseImage EXCEPT !.version = "v1"]
    /\ ~Recorded("Image") /\ Recorded("Image versions")
    /\ remote.vm[1].image.version = "v1"

\* another sku and another version: both are recorded
C29_WitnessBoth ==
    /\ VMFetched /\ Done /\ CleanRun
    /\ Recorded("Image") /\ Recorded("Image versions")
    /\ remote.vm[1].image = [publisher |-> "P1", offer |-> "O1", sku |-> "S2", version |-> "v1"]

\* C30: network-interface diff.  For an existing VM with a supplied list of
\* NIC names, "Network Interfaces" is recorded if and only if the set of
\* desired NIC ids differs from the set of attached NIC ids (order and
\* duplicates do not matter), and then the target's NIC set is exactly the
\* desired set; when no NIC names are supplied the attached NICs are never
\* changed.
C30_NicDiff ==
    (VMFetched /\ p.state \in NonAbsent)
        => LET cur == loc.vm[1].nics
               target == loc.vm_dict[1].nics
           IN /\ IF Truthy(p.network_interface_names)
                 THEN /\ TimesRecorded("Network Interfaces")
                            = (IF Range(DesiredNicIds) # Range(cur) THEN 1 ELSE 0)
                      /\ (Recorded("Network Interfaces")
                            => Range(target) = Range(DesiredNicIds))
                      /\ (~Recorded("Network Interfaces") => target = cur)
                 ELSE /\ ~Recorded("Network Interfaces")
                      /\ target = cur
                      /\ (IsSet(remote.vm) => remote.vm[1].nics = cur)
              /\ (IsSet(loc.sent) => loc.sent[1].nics = target)

\* nic1 is attached and nic2 is asked for: recorded, and nic2 replaces nic1
C30_Witness ==
    /\ VMFetched /\ Done /\ CleanRun
    /\ loc.vm[1].nics = <<NicId("nic1")>>
    /\ p.network_interface_names = Some(<<"nic2">>)
    /\ Recorded("Network Interfaces")
    /\ remote.vm[1].nics = <<NicId("nic2")>>

\* the attached NICs in another order, or with a duplicate: no difference
C30_WitnessOrder ==
    /\ VMFetched /\ Done /\ CleanRun
    /\ loc.vm[1].nics = <<NicId("nic1"), NicId("nic2")>>
    /\ p.network_interface_names = Some(<<"nic2", "nic1">>)
    /\ ~results.changed /\ NoMutation
C30_WitnessDuplicate ==
    /\ VMFetched /\ Done /\ CleanRun
    /\ loc.vm[1].nics = <<NicId("nic1")>>
    /\ p.network_interface_names = Some(<<"nic1", "nic1">>)
    /\ ~Recorded("Network Interfaces")

\* no NIC names supplied while another field is updated: the NICs stay
C30_WitnessNotSupplied ==
    /\ VMFetched /\ Done /\ CleanRun
    /\ ~Truthy(p.network_interface_names)
    /\ Count(calls, "virtual_machines.create_or_update") = 1
    /\ remote.vm[1].nics = loc.vm[1].nics

\* a real invocation has returned
Returned == Done /\ ~p.check_mode

\* C31: changed=false means untouched.  In both modules, every non-check
\* invocation that returns successfully with changed=false has issued no
\* remote create, update, delete, power-on or power-off call.
C31_UnchangedMeansUntouched ==
    (Returned /\ ~results.changed)
        => /\ NoMutation
           /\ \A i \in 1..Len(calls) : calls[i][1] # "wait"

\* an existing VM that matches its DesiredState: fetched, compared, returned
C31_Witness ==
    /\ IsVM /\ Returned /\ ~results.changed
    /\ VMFetched /\ p.state \in NonAbsent
    /\ Count(calls, "virtual_machines.get") = 1
    /\ NoMutation

\* the same for a virtual network
C31_WitnessVNet ==
    /\ IsVNet /\ Returned /\ ~results.changed
    /\ IsSet(loc.vnet) /\ p.state = "present"
    /\ Truthy(p.address_prefixes_cidr)
    /\ NoMutation

\* C32: changed=true means something was done.  In both modules, every
\* non-check invocation that returns successfully with changed=true has issued
\* at least one remote mutating call (create-or-update, delete, power-on or
\* power-off) and, in the VM module, has appended at least one entry to the
\* action log.
C32_ChangedMeansDone ==
    (Returned /\ results.changed)
        => /\ Len(Mutations(calls)) >= 1
           /\ (IsVM => Len(results.actions) >= 1)
           /\ \E i \in 1..Len(calls) :
                 calls[i][1] \in {"virtual_machines.create_or_update", "virtual_machines.delete",
                                  "virtual_machines.start", "virtual_machines.power_off",
                                  "virtual_networks.create_or_update", "virtual_networks.delete"}

\* changed by the power state alone: the one call is the power-on
C32_Witness ==
    /\ IsVM /\ Returned /\ results.changed /\ ~faulted
    /\ VMFetched /\ results.differences = Some(<<>>)
    /\ Mutations(calls) = <<Call("virtual_machines.start", VMName)>>
    /\ results.actions = << <<"Powered on virtual machine", VMName>> >>

\* a virtual network changed in its tags alone: one create-or-update
C32_WitnessVNet ==
    /\ IsVNet /\ Returned /\ results.changed /\ ~faulted
    /\ IsSet(loc.vnet)
    /\ Count(calls, "virtual_networks.create_or_update") = 1

\* the power call the invocation issued, if any
PowerCallIssued ==
    IF Count(calls, "virtual_machines.start") > 0 THEN "poweron"
    ELSE IF Count(calls, "virtual_machines.power_off") > 0 THEN "poweroff"
    ELSE None

\* C33: the reported power-state change matches the calls made.  For every
\* successful non-check VM invocation, powerstate_change is "poweron" exactly
\* when a power-on call was issued, "poweroff" exactly when a power-off call
\* was issued, and none otherwise, also when an update of the same invocation
\* already left the VM in the requested power state.
C33_PowerChangeMatchesCalls ==
    (IsVM /\ Returned) => results.powerstate_change = PowerCallIssued

\* what does hold: a power call is never issued unreported, and the report
\* matches the calls whenever the invocation issued no create-or-update
C33_PowerCallsAreReported ==
    (IsVM /\ Returned)
        => /\ PowerCallIssued # None => results.powerstate_change = PowerCallIssued
           /\ Count(calls, "virtual_machines.create_or_update") = 0
                 => results.powerstate_change = PowerCallIssued

\* the update left the VM running: 'poweron' is reported, no call was issued
C33_WitnessReportedNotIssued ==
    /\ IsVM /\ Returned /\ ~faulted
    /\ results.powerstate_change = "poweron"
    /\ Count(calls, "virtual_machines.create_or_update") = 1
    /\ Count(calls, "virtual_machines.start") = 0
    /\ RemotePowerState = "running"

\* the calls that create, update or power a resource, and those that delete one
ConstructiveOps ==
    {"virtual_machines.create_or_update", "virtual_machines.start",
     "virtual_machines.power_off", "network_interfaces.create_or_update",
     "public_ip_addresses.create_or_update",
     "network_security_groups.create_or_update", "storage_accounts.create",
     "virtual_networks.create_or_update"}
DestructiveOps ==
    {"virtual_machines.delete", "network_interfaces.delete",
     "public_ip_addresses.delete", "blob.delete_blob", "virtual_networks.delete"}
OpsIssued == {calls[i][1] : i \in 1..Len(calls)}

\* C34: the intent bounds the kinds of call.  An invocation with state=absent
\* never issues a create-or-update, power-on or power-off call, nor a create
\* of a default NIC, public IP, security group or storage account; an
\* invocation with state present, started or stopped never issues a delete
\* call for the resource or for any of its dependents.  This holds at every
\* point of the invocation, failed ones included.
C34_IntentBoundsCalls ==
    /\ p.state = "absent" => OpsIssued \cap ConstructiveOps = {}
    /\ p.state # "absent" => OpsIssued \cap DestructiveOps = {}
    /\ MutatingOps = ConstructiveOps \cup DestructiveOps

\* a full cascade under state=absent: deletes only
C34_Witness ==
    /\ IsVM /\ Returned /\ p.state = "absent"
    /\ {"virtual_machines.delete", "network_interfaces.delete",
        "public_ip_addresses.delete", "blob.delete_blob"} \subseteq OpsIssued

\* a creation with every default under a non-absent intent: creates only
C34_WitnessCreate ==
    /\ IsVM /\ Returned /\ p.state \in NonAbsent
    /\ {"virtual_machines.create_or_update", "network_interfaces.create_or_update",
        "public_ip_addresses.create_or_update",
        "network_security_groups.create_or_update",
        "storage_accounts.create"} \subseteq OpsIssued

\* the same for the virtual network, in both directions
C34_WitnessVNet ==
    /\ IsVNet /\ Returned
    /\ \/ p.state = "absent" /\ "virtual_networks.delete" \in OpsIssued
       \/ p.state = "present" /\ "virtual_networks.create_or_update" \in OpsIssued

\* the positions of an operation in the call log
Positions(op) == {i \in 1..Len(calls) : calls[i][1] = op}
\* the NIC read of the plan was failed
PlanReadFailed ==
    /\ Len(calls) > 0
    /\ calls[Len(calls)] = Raise("network_interfaces.get")
    /\ p.state = "absent"

C35_WitnessAborted ==
    /\ IsVM /\ PlanReadFailed /\ pc = "failed"
    /\ IsSet(remote.vm) /\ remote.vm = loc.vm
    /\ NoMutation

\* the place of a create call in the order of creation
CreationRank(op) ==
    CASE op = "public_ip_addresses.create_or_update" -> 1
      [] op = "network_security_groups.create_or_update" -> 2
      [] op = "network_interfaces.create_or_update" -> 3
      [] op = "storage_accounts.create" -> 4
      [] op = "virtual_machines.create_or_update" -> 5
      [] OTHER -> 0
\* lookups whose CloudError the code swallows
SwallowedLookups ==
    {"virtual_machines.get", "network_interfaces.get", "storage_accounts.get_properties"}
\* position k of the call log is a call that returned: it is not followed by its raise
Returns(k) == ~(k < Len(calls) /\ calls[k + 1] = Raise(calls[k][1]))
\* a creation with neither a NIC nor a storage account supplied
CreatingWithDefaults ==
    /\ IsVM /\ p.state \in NonAbsent /\ ~p.check_mode
    /\ ~Truthy(self.network_interface_names)
    /\ self.storage_account_name = None
    /\ ~IsSet(loc.vm)

\* C36: creation dependency order.  When neither a NIC nor a storage account
\* is supplied, the create calls are issued in the order public IP, security
\* group, NIC, storage account, VM; the VM create-or-update is issued only
\* after a NIC and a storage account were obtained (found by the lookup or
\* created), and carries them; a call that fails at an earlier step ends the
\* invocation, so that the VM create-or-update is never issued.
C36_CreationOrder ==
    CreatingWithDefaults
        => /\ \A i, j \in 1..Len(calls) :
                 (i < j /\ CreationRank(calls[i][1]) > 0 /\ CreationRank(calls[j][1]) > 0)
                     => CreationRank(calls[i][1]) < CreationRank(calls[j][1])
           /\ \A j \in Positions("virtual_machines.create_or_update") :
                 /\ \E i \in 1..(j - 1) :
                       /\ calls[i][1] \in {"network_interfaces.get",
                                           "network_interfaces.create_or_update"}
                       /\ calls[i][2] = Plus01(VMName)
                       /\ Returns(i)
                 /\ \E i \in 1..(j - 1) :
                       /\ calls[i][1] \in {"storage_accounts.get_properties",
                                           "storage_accounts.create"}
                       /\ calls[i][2] = Plus01(VMName)
                       /\ Returns(i)
                 /\ \A i \in 1..(j - 1) :
                       calls[i][1] = "raise" => calls[i][2] \in SwallowedLookups
                 /\ loc.sent[1].nics = <<NicId(Plus01(VMName))>>
                 /\ loc.sent[1].vhdUri[2] = Plus01(VMName)
           /\ (pc = "failed" /\ failure = "validation")
                 => Positions("virtual_machines.create_or_update") = {}

\* everything was missing: the five creates, in order
C36_Witness ==
    /\ CreatingWithDefaults /\ Returned /\ ~faulted
    /\ Len(Mutations(calls)) = 5
    /\ [i \in 1..5 |-> Mutations(calls)[i][1]]
         = <<"public_ip_addresses.create_or_update",
             "network_security_groups.create_or_update",
             "network_interfaces.create_or_update",
             "storage_accounts.create",
             "virtual_machines.create_or_update">>

\* the NIC create failed: neither the storage account nor the VM is created
C36_WitnessFailed ==
    /\ CreatingWithDefaults /\ pc = "failed"
    /\ calls[Len(calls)] = Raise("network_interfaces.create_or_update")
    /\ Count(calls, "public_ip_addresses.create_or_update") = 1
    /\ Count(calls, "storage_accounts.create") = 0
    /\ Count(calls, "virtual_machines.create_or_update") = 0

\* an update of this invocation was sent for a diff that recorded the tags
TagsUpdateSent ==
    /\ IsVM /\ ~p.check_mode /\ p.state \in NonAbsent
    /\ VMFetched /\ Recorded("Tags")
    /\ IsSet(loc.sent)

\* C37: the VM update carries the merged tags.  Whenever the diff records
\* "Tags", the tags of the update payload equal the merged tag mapping, also
\* when that mapping is empty (purge_tags with no desired tags).
C37_UpdateCarriesMergedTags ==
    TagsUpdateSent => loc.sent[1].tags = Some(ReconciledTags)

\* what does hold: a merged mapping that is not empty is carried as it is, and
\* an empty one leaves the payload without a tags field
C37_NonEmptyTagsCarried ==
    TagsUpdateSent
        => /\ loc.vm_dict[1].tags = ReconciledTags
           /\ ReconciledTags # {} => loc.sent[1].tags = Some(ReconciledTags)
           /\ ReconciledTags = {} => loc.sent[1].tags = <<>>

\* tags purged down to nothing: the payload has no tags field
C37_WitnessEmpty ==
    /\ TagsUpdateSent /\ Returned /\ ~faulted
    /\ p.purge_tags /\ DesiredTags = {} /\ FetchedTags # {}
    /\ ~IsSet(loc.sent[1].tags)

\* tags merged to a non-empty mapping: the payload carries it
C37_WitnessMerged ==
    /\ TagsUpdateSent /\ Returned /\ ~faulted
    /\ ReconciledTags # {} /\ ReconciledTags # FetchedTags
    /\ loc.sent[1].tags = Some(ReconciledTags)

\* a real invocation against an existing virtual network has ended without an
\* injected failure, and its diff was not empty
VNetChangedExisting ==
    /\ IsVNet /\ pc \in {"done", "failed"} /\ CleanRun
    /\ p.state = "present"
    /\ IsSet(loc.vnet) /\ results.changed
\* the fetched network has no custom DNS servers
NoCustomDns == ~IsSet(loc.vnet[1].dhcp) \/ Len(loc.vnet[1].dhcp[1]) = 0

\* C38: the virtual-network update does not depend on DNS being configured.
\* For an existing virtual network with no custom DNS servers, and no desired
\* DNS list, a non-check invocation whose diff is not empty reaches the
\* create-or-update call and completes.
C38_UpdateWithoutDns ==
    (VNetChangedExisting /\ NoCustomDns /\ ~Truthy(p.dns_servers))
        => /\ Done
           /\ Count(calls, "virtual_networks.create_or_update") = 1

\* what does hold: without custom DNS servers the update ends in an error
\* before any call is issued; with them it completes with one create-or-update
C38_UpdateNeedsDns ==
    (VNetChangedExisting /\ ~Truthy(p.dns_servers))
        => IF NoCustomDns
           THEN /\ pc = "failed" /\ failure = "error"
                /\ NoMutation
                /\ remote.vnet = loc.vnet
           ELSE /\ Done
                /\ Count(calls, "virtual_networks.create_or_update") = 1

\* tags differ on a network without DNS servers: the invocation fails
C38_WitnessFails ==
    /\ VNetChangedExisting /\ NoCustomDns /\ ~Truthy(p.dns_servers)
    /\ IsSet(loc.vnet[1].dhcp)
    /\ pc = "failed" /\ failure = "error"

\* the same diff on a network with DNS servers: the update is sent
C38_WitnessCompletes ==
    /\ VNetChangedExisting /\ ~NoCustomDns /\ ~Truthy(p.dns_servers)
    /\ ~p.purge_dns_servers
    /\ Done /\ Count(calls, "virtual_networks.create_or_update") = 1

\* the call an action-log entry stands for
EntryOp(e) ==
    CASE e[1] \in {"Created VM", "Updated VM"} -> "virtual_machines.create_or_update"
      [] e[1] = "Creating default public IP" -> "public_ip_addresses.create_or_update"
      [] e[1] = "Created default security group" -> "network_security_groups.create_or_update"
      [] e[1] = "Created NIC" -> "network_interfaces.create_or_update"
      [] e[1] = "Created storage account" -> "storage_accounts.create"
      [] e[1] = "Powered on virtual machine" -> "virtual_machines.start"
      [] e[1] = "Powered off virtual machine" -> "virtual_machines.power_off"
      [] e[1] = "Deleted virtual machine" -> "virtual_machines.delete"
      [] e[1] = "Deleted blob" -> "blob.delete_blob"
      [] e[1] = "Deleted network interface" -> "network_interfaces.delete"
      [] e[1] = "Deleted public IP" -> "public_ip_addresses.delete"
      [] OTHER -> "none"
\* where in the call log the side effect of an entry was performed
EntryCalls(e) ==
    {k \in 1..Len(calls) : calls[k][1] = EntryOp(e) /\ calls[k][2] = e[2]}
\* entries i < j of the action log stand for calls issued in that order
InCallOrder(i, j) ==
    \A a \in EntryCalls(results.actions[i]) :
       \A b \in EntryCalls(results.actions[j]) : a < b

\* C39: the action log is an ordered record of side effects.  The order of
\* the action log of a VM invocation equals the order in which the side
\* effects were performed; on a creation the entry for the VM does not precede
\* the entries for the default public IP, security group, NIC and storage
\* account created before it.
C39_ActionLogInEffectOrder ==
    (IsVM /\ Returned)
        => \A i, j \in 1..Len(results.actions) : i < j => InCallOrder(i, j)

\* what does hold: within an invocation the action log only grows; every
\* entry but 'Created VM' is in the order of the calls; 'Created VM' is
\* written first, before the validation and before any default is created
C39_ActionLogGrows ==
    /\ [](IsVM =>
            /\ \A i, j \in 1..Len(results.actions) :
                  (i < j /\ results.actions[i][1] # "Created VM") => InCallOrder(i, j)
            /\ \A i \in 1..Len(results.actions) :
                  results.actions[i][1] = "Created VM" => i = 1)
    /\ [][IsVM => \/ IsPrefix(results.actions, results'.actions)
                  \/ (pc = "done" /\ pc' = "start" /\ results'.actions = <<>>)]_vars

\* a creation with every default: 'Created VM' is the first entry, the VM
\* create-or-update the last call
C39_WitnessCreatedFirst ==
    /\ IsVM /\ Returned /\ ~faulted
    /\ Len(results.actions) = 5
    /\ results.actions[1] = <<"Created VM", VMName>>
    /\ results.actions[5] = <<"Created storage account", Plus01(VMName)>>
    /\ Count(calls, "storage_accounts.create") = 1
    /\ \A k \in Positions("storage_accounts.create") :
          \A v \in Positions("virtual_machines.create_or_update") : k < v

\* the remote calls of an invocation, waits and raises left aside
RemoteCalls == SelectSeq(calls, LAMBDA c : c[1] \notin {"wait", "raise"})

\* the most remote calls one invocation issues: the resource group, the fetch
\* (the VM, then one NIC and one public IP per attached NIC), and at most an
\* update and a power call, each with its own call and re-fetch; creation and
\* deletion issue fewer
CallBound == 6 + 6 * MaxNics
Terminal == pc \in {"done", "failed"}

\* C40: termination.  Given that every remote call and wait returns or
\* raises, every invocation of either module reaches a terminal state (it
\* returned, or it failed fatally), and it issues a number of remote calls
\* bounded by the number of NICs (and public IPs, one per NIC) involved.
C40_Termination ==
    /\ (~Terminal) ~> Terminal
    /\ [](Len(RemoteCalls) <= CallBound)
    /\ [][pc = "failed" => pc' = "failed"]_vars

\* an update followed by a power call on a VM with every NIC attached: the
\* longest invocation, returned
C40_Witness ==
    /\ IsVM /\ Returned
    /\ Count(calls, "virtual_machines.create_or_update") = 1
    /\ Count(calls, "virtual_machines.start") = 1
    /\ Len(RemoteCalls) >= 12

\* a full cascade ended in a fatal failure at its last delete
C40_WitnessFailed ==
    /\ IsVM /\ pc = "failed" /\ p.state = "absent"
    /\ Count(calls, "network_interfaces.delete") > 0
    /\ calls[Len(calls)] = Raise("public_ip_addresses.delete")

====
